---- MODULE Spec2Model ----
(***************************************************************************)
(* Model of the crawl orchestration core of robin: the Tor egress pool     *)
(* (tor_pool.py), the circuit controller (tor_controller.py), the search   *)
(* dispatcher (search.py), the scraper (scrape.py) and the indicator merge *)
(* (utils.py).                                                             *)
(*                                                                         *)
(* In the pool specification a health-cache entry is either fresh or       *)
(* absent and ExpireCache lets the 60 s window elapse; the specifications  *)
(* over time carry a clock in seconds. last_used is a timestamp no code    *)
(* path reads and is not represented.                                      *)
(***************************************************************************)
EXTENDS Integers, Sequences, FiniteSets, TLC

\* ------------------------------------------------------------------ bounds
MaxInstances == 3      \* largest configured TOR_INSTANCE_COUNT explored
MaxThreads == 2        \* concurrent workers using the pool
MaxCalls == 5          \* get_proxy_for_request calls per behaviour
MaxHealthOps == 2      \* health_check_port / get_healthy_ports calls
MaxHealthInstances == 2 \* largest pool explored together with health checks
MaxHealthCalls == 3    \* requests explored together with health checks
MaxWorkers == 3        \* largest max_workers of a dispatch
MaxScrapeCalls == 2     \* direct scrape_single calls per behaviour
MaxCandidates == 2      \* longest candidate list given to scrape_multiple
MaxChars == 2           \* largest max_chars given to scrape_multiple
MaxRotateCalls == 4      \* scrape_single invocations of the worker threads
MaxInterval == 2         \* largest rotate_interval given to scrape_single
MaxFetchCalls == 4       \* direct fetch_search_results calls per behaviour
MaxDispatchInstances == 2 \* size of the pool a dispatch runs on when enabled

\* direct check_search_engine_health calls, direct get_enabled_search_engines
\* calls, completed get_search_results calls, halves of the cache window
MaxProbes == 2
MaxOrderedCalls == 1
MaxSearchRuns == 1
MaxTicks == 2

\* health checks made as time passes, halves of the pool's cache window
MaxPoolChecks == 3
MaxPoolTicks == 3

\* get_proxy_for_request calls made on their own
MaxSelects == 2

\* record_success calls made on their own
MaxRecords == 1

\* calls made on a TorController object
MaxCtlCalls == 4

\* distinct values an indicator type can hold
MaxIocValues == 2

\* words of a text, names in a requested type list, extract_iocs calls on
\* one text
MaxWords == 2
MaxTypeList == 2
MaxExtractCalls == 2

\* largest max_retries given to retry_with_backoff
MaxRetries == 3

\* record_success / record_failure calls made on one endpoint
MaxStatCalls == 3

\* TorPool objects constructed by get_tor_pool
MaxPoolObjects == 3

\* --------------------------------------------------------------- constants
TOR_INSTANCE_START_PORT == 9050

NoPort == 0            \* Python None for an Optional[int] port
NoThread == 0          \* port_lock not held

Threads == 1..MaxThreads

VARIABLES
    \* TorPool fields
    enabled, instance_count, ports, current_index, port_lock,
    port_stats, health_cache,
    \* workers using the pool
    pc, port_used, calls, returned, health_ops, healthy_call,
    \* search.py module state and one get_search_results call
    engine_health, engine_stats, engine_behaviour,
    d_phase, max_workers, d_tasks, t_state, t_port, t_out,
    fanin, consumed, completion, results, tor_verified, d_ret,
    \* scrape.py module state, direct scrape_single calls, one scrape_multiple
    rotate_on_error, request_counter, tor_controller, scrape_calls, single_call,
    s_phase, s_cands, s_max_chars, s_workers, s_res, s_port, s_fanin,
    s_consumed, s_results, s_ret,
    \* threads running scrape_single: counter_lock, their position and
    \* locals, the rotate and rotate_interval arguments they are called with,
    \* whether a request of theirs has failed
    counter_lock, w_pc, w_reg, w_rotate, w_interval, w_failed,
    \* the rotate and rotate_interval keywords of a scrape_multiple call
    s_kwargs,
    \* the last fetch_search_results call made directly
    fetch_call,
    \* seconds since import, the time each _engine_health entry was written,
    \* the network checks made per engine, the last
    \* check_search_engine_health and get_enabled_search_engines calls made
    \* directly, the get_search_results calls run to completion
    now, engine_stamp, net_checks, probe_call, ordered_call, dispatch_calls,
    \* the time each health_cache entry was written, the reachability
    \* requests sent per port, the last health check made as time passes
    health_stamp, port_checks, health_call,
    \* the last get_proxy_for_request and record_success calls made on
    \* their own
    select_call, record_call,
    \* a TorController object: its controller field, _rotation_count and
    \* _last_rotation_time; the NEWNYM signals sent, the control channels
    \* opened and released, the rotate_circuit calls that returned True,
    \* whether a close() call has returned, the calls started; each calling
    \* thread's position and locals, and the last call that returned
    c_controller, c_rotation_count, c_last_rotation, c_signals, c_opened,
    c_released, c_true_returns, c_closed, c_calls, c_pc, c_reg, c_last,
    \* whether the control channel held in the controller field has
    \* authenticated
    c_auth,
    \* the indicator dictionaries given to merge_iocs and what the calls on
    \* them returned
    m_dicts, m_out,
    \* the text given to extract_iocs and the calls made on it
    x_text, x_calls,
    \* one run of a function wrapped by retry_with_backoff
    r_run,
    \* threads inside record_success / record_failure: their position, the
    \* counter value they loaded, and the calls started so far
    k_pc, k_reg, k_kinds,
    \* the module global _tor_pool of tor_pool.py, the TorPool objects
    \* constructed so far, each thread's position in get_tor_pool, and the
    \* objects get_tor_pool has returned since the last reset
    g_tor_pool, g_built, g_call, g_returned

poolVars == <<enabled, instance_count, ports, current_index, port_lock,
              port_stats, health_cache>>
workerVars == <<pc, port_used, calls, returned, health_ops, healthy_call>>

dispatchVars == <<engine_health, engine_stats, engine_behaviour,
                  d_phase, max_workers, d_tasks, t_state, t_port, t_out,
                  fanin, consumed, completion, results, tor_verified, d_ret>>

multiVars == <<s_phase, s_cands, s_max_chars, s_workers, s_res, s_port,
               s_fanin, s_consumed, s_results, s_ret>>

scrapeVars == <<rotate_on_error, request_counter, tor_controller, scrape_calls,
                single_call, multiVars>>

threadVars == <<counter_lock, w_pc, w_reg, w_rotate, w_interval, w_failed>>

probeVars == <<now, engine_stamp, net_checks, probe_call, ordered_call,
               dispatch_calls>>

poolAuxVars == <<health_stamp, port_checks, health_call, select_call,
                 record_call>>

ctlVars == <<c_controller, c_rotation_count, c_last_rotation, c_signals,
             c_opened, c_released, c_true_returns, c_closed, c_calls,
             c_pc, c_reg, c_last, c_auth>>

mergeVars == <<m_dicts, m_out>>

extractVars == <<x_text, x_calls>>

\* state of the components modelled on their own
retryVars == <<r_run>>

statVars == <<k_pc, k_reg, k_kinds>>

globalVars == <<g_tor_pool, g_built, g_call, g_returned>>

moreVars == <<extractVars, retryVars, statVars, globalVars>>

auxVars == <<poolAuxVars, ctlVars, mergeVars, moreVars>>

\* everything but the TorController object
nonCtlVars == <<poolVars, workerVars, dispatchVars, scrapeVars, threadVars,
                s_kwargs, fetch_call, probeVars, poolAuxVars, mergeVars,
                moreVars>>

extVars == <<threadVars, s_kwargs, fetch_call, probeVars, auxVars>>

vars == <<poolVars, workerVars, dispatchVars, scrapeVars, extVars>>

\* ---------------------------------------------------------------- TorPool

\* the defaultdict factory of port_stats
DefaultStats ==
    [requests |-> 0, successes |-> 0, failures |-> 0, health_status |-> "unknown"]

\* self.port_stats[port]: a read through the defaultdict creates the entry
Touch(stats, port) ==
    IF port \in DOMAIN stats THEN stats ELSE stats @@ (port :> DefaultStats)

\* range(start_port, start_port + instance_count)
PortRange(start, count) == [i \in 1..count |-> start + i - 1]

PortSet == {ports[i] : i \in 1..Len(ports)}

\* TorPool.__init__
PoolInit(en, count) ==
    /\ enabled = en
    /\ instance_count = (IF en THEN count ELSE 1)
    /\ ports = PortRange(TOR_INSTANCE_START_PORT, IF en THEN count ELSE 1)
    /\ current_index = 0
    /\ port_lock = NoThread
    /\ port_stats = << >>
    /\ health_cache = << >>

\* the lock guard of `with self.port_lock`
LockFree_Mutant(t) == TRUE
LockFree(t) == port_lock = NoThread

\* (self.current_index + 1) % self.instance_count
NextIndex_Mutant(idx, count) == (idx + 1) % (count - 1)
NextIndex(idx, count) == (idx + 1) % count

\* get_proxy_for_request: a known preferred port is returned as is, otherwise
\* get_available_port, which returns start_port outside multi-instance mode
GetProxyForRequest(t, prefer) ==
    /\ pc[t] = "idle"
    /\ calls < MaxCalls
    /\ calls' = calls + 1
    /\ IF prefer # NoPort /\ prefer \in PortSet
         THEN /\ port_used' = [port_used EXCEPT ![t] = prefer]
              /\ pc' = [pc EXCEPT ![t] = "io"]
         ELSE IF ~enabled \/ instance_count = 1
           THEN /\ port_used' = [port_used EXCEPT ![t] = TOR_INSTANCE_START_PORT]
                /\ pc' = [pc EXCEPT ![t] = "io"]
           ELSE /\ port_used' = port_used
                /\ pc' = [pc EXCEPT ![t] = "lock"]
    /\ UNCHANGED <<poolVars, returned, health_ops, healthy_call, dispatchVars, scrapeVars, extVars>>

\* get_available_port, line 73: with self.port_lock
AcquireLock(t) ==
    /\ pc[t] = "lock"
    /\ LockFree(t)
    /\ port_lock' = t
    /\ pc' = [pc EXCEPT ![t] = "L74"]
    /\ UNCHANGED <<enabled, instance_count, ports, current_index, port_stats,
                   health_cache, port_used, calls, returned, health_ops, healthy_call, dispatchVars, scrapeVars, extVars>>

\* line 74: port = self.ports[self.current_index]
ReadPort(t) ==
    /\ pc[t] = "L74"
    /\ port_used' = [port_used EXCEPT ![t] = ports[current_index + 1]]
    /\ pc' = [pc EXCEPT ![t] = "L75"]
    /\ UNCHANGED <<poolVars, calls, returned, health_ops, healthy_call, dispatchVars, scrapeVars, extVars>>

\* line 75: self.current_index = (self.current_index + 1) % self.instance_count
AdvanceIndex(t) ==
    /\ pc[t] = "L75"
    /\ current_index' = NextIndex(current_index, instance_count)
    /\ pc' = [pc EXCEPT ![t] = "L77"]
    /\ UNCHANGED <<enabled, instance_count, ports, port_lock, port_stats,
                   health_cache, port_used, calls, returned, health_ops, healthy_call, dispatchVars, scrapeVars, extVars>>

\* lines 76-77: self.port_stats[port]["requests"] += 1
IncRequests(t) ==
    /\ pc[t] = "L77"
    /\ LET s == Touch(port_stats, port_used[t])
       IN port_stats' = [s EXCEPT ![port_used[t]].requests = @ + 1]
    /\ pc' = [pc EXCEPT ![t] = "L78"]
    /\ UNCHANGED <<enabled, instance_count, ports, current_index, port_lock,
                   health_cache, port_used, calls, returned, health_ops, healthy_call, dispatchVars, scrapeVars, extVars>>

\* line 78: return port, leaving the with block
ReleaseLock(t) ==
    /\ pc[t] = "L78"
    /\ port_lock' = (IF port_lock = t THEN NoThread ELSE port_lock)
    /\ returned' = Append(returned, port_used[t])
    /\ pc' = [pc EXCEPT ![t] = "io"]
    /\ UNCHANGED <<enabled, instance_count, ports, current_index, port_stats,
                   health_cache, port_used, calls, health_ops, healthy_call, dispatchVars, scrapeVars, extVars>>

\* record_success
RecordSuccess(stats, port) ==
    IF port \in DOMAIN stats
      THEN [stats EXCEPT ![port].successes = @ + 1,
                         ![port].health_status = "healthy"]
      ELSE stats

\* failure_rate > 0.5 with failure_rate = failures / total
HighFailureRate_Mutant(failures, total) == 2 * failures >= total
HighFailureRate(failures, total) == 2 * failures > total

\* record_failure
RecordFailure(stats, port) ==
    IF port \in DOMAIN stats
      THEN LET failures == stats[port].failures + 1
               total == stats[port].requests
           IN [stats EXCEPT
                 ![port].failures = failures,
                 ![port].health_status =
                     IF total > 0 /\ HighFailureRate(failures, total)
                       THEN "unhealthy" ELSE @]
      ELSE stats

\* the request a worker issued through port_used[t] completed with a 200
RequestSucceeds(t) ==
    /\ pc[t] = "io"
    /\ port_stats' = RecordSuccess(port_stats, port_used[t])
    /\ pc' = [pc EXCEPT ![t] = "idle"]
    /\ UNCHANGED <<enabled, instance_count, ports, current_index, port_lock,
                   health_cache, port_used, calls, returned, health_ops, healthy_call, dispatchVars, scrapeVars, extVars>>

\* the request a worker issued through port_used[t] failed
RequestFails(t) ==
    /\ pc[t] = "io"
    /\ port_stats' = RecordFailure(port_stats, port_used[t])
    /\ pc' = [pc EXCEPT ![t] = "idle"]
    /\ UNCHANGED <<enabled, instance_count, ports, current_index, port_lock,
                   health_cache, port_used, calls, returned, health_ops, healthy_call, dispatchVars, scrapeVars, extVars>>

\* ------------------------------------- selection as one step (lock held)

\* get_available_port run to completion by one caller: the port returned,
\* the cursor and the statistics it leaves
GetAvailablePort_Mutant(idx, stats) == IF ~enabled \/ instance_count = 1 THEN [port |-> TOR_INSTANCE_START_PORT, index |-> idx, stats |-> stats] ELSE LET ok == {k \in 0..(instance_count - 1) : ~(ports[((idx + k) % instance_count) + 1] \in DOMAIN stats /\ stats[ports[((idx + k) % instance_count) + 1]].health_status = "unhealthy")} k == IF ok = {} THEN 0 ELSE CHOOSE x \in ok : \A y \in ok : x <= y port == ports[((idx + k) % instance_count) + 1] IN [port |-> port, index |-> NextIndex(idx + k, instance_count), stats |-> [Touch(stats, port) EXCEPT ![port].requests = @ + 1]]
GetAvailablePort(idx, stats) ==
    IF ~enabled \/ instance_count = 1
      THEN [port |-> TOR_INSTANCE_START_PORT, index |-> idx, stats |-> stats]
      ELSE LET port == ports[idx + 1]
               s == Touch(stats, port)
           IN [port |-> port,
               index |-> NextIndex(idx, instance_count),
               stats |-> [s EXCEPT ![port].requests = @ + 1]]

\* get_proxy_for_request run to completion by one caller
GetProxy_Mutant(prefer, idx, stats) == IF prefer # NoPort THEN [port |-> prefer, index |-> idx, stats |-> stats] ELSE GetAvailablePort(idx, stats)
GetProxy(prefer, idx, stats) ==
    IF prefer # NoPort /\ prefer \in PortSet
      THEN [port |-> prefer, index |-> idx, stats |-> stats]
      ELSE GetAvailablePort(idx, stats)

\* a whole request of one caller: select an endpoint, fetch, report the
\* outcome to the pool
Request(prefer, ok) ==
    /\ calls < MaxHealthCalls
    /\ calls' = calls + 1
    /\ LET sel == GetProxy(prefer, current_index, port_stats)
       IN /\ current_index' = sel.index
          /\ port_stats' = IF ok THEN RecordSuccess(sel.stats, sel.port)
                                 ELSE RecordFailure(sel.stats, sel.port)
    /\ UNCHANGED <<enabled, instance_count, ports, port_lock, health_cache,
                   pc, port_used, returned, health_ops, healthy_call, dispatchVars, scrapeVars, extVars>>

NoSelectCall ==
    [n |-> 0, prefer |-> NoPort, port |-> NoPort, index_before |-> 0,
     index_after |-> 0, stats_before |-> << >>, stats_after |-> << >>]

\* a caller runs get_proxy_for_request(prefer) to the end; select_call
\* records the port of the proxy returned and the cursor and statistics
\* before and after
SelectEndpoint(prefer) ==
    /\ select_call.n < MaxSelects
    /\ LET sel == GetProxy(prefer, current_index, port_stats)
       IN /\ current_index' = sel.index
          /\ port_stats' = sel.stats
          /\ select_call' =
                [n |-> select_call.n + 1, prefer |-> prefer, port |-> sel.port,
                 index_before |-> current_index, index_after |-> sel.index,
                 stats_before |-> port_stats, stats_after |-> sel.stats]
    /\ UNCHANGED <<enabled, instance_count, ports, port_lock, health_cache,
                   workerVars, dispatchVars, scrapeVars, threadVars, s_kwargs,
                   fetch_call, probeVars, health_stamp, port_checks, health_call,
                   record_call, ctlVars, mergeVars, moreVars>>

NoRecordCall ==
    [n |-> 0, port |-> NoPort, index_before |-> 0, index_after |-> 0,
     stats_before |-> << >>, stats_after |-> << >>]

\* a caller runs record_success(port) to the end for a port of the pool;
\* record_call records the cursor and the statistics before and after
RecordSuccessCall(port) ==
    /\ record_call.n < MaxRecords
    /\ port \in PortSet
    /\ port_stats' = RecordSuccess(port_stats, port)
    /\ record_call' =
          [n |-> record_call.n + 1, port |-> port,
           index_before |-> current_index, index_after |-> current_index,
           stats_before |-> port_stats,
           stats_after |-> RecordSuccess(port_stats, port)]
    /\ UNCHANGED <<enabled, instance_count, ports, current_index, port_lock,
                   health_cache, workerVars, dispatchVars, scrapeVars,
                   threadVars, s_kwargs, fetch_call, probeVars, health_stamp,
                   port_checks, health_call, select_call, ctlVars, mergeVars,
                   moreVars>>

\* --------------------------------------------------------- health checks

\* outcomes of requests.get("http://check.torproject.org/") through a port
ProbeOutcomes == {"200", "non200", "exception"}

\* health_check_port: a fresh cache entry is returned without a request and
\* without touching port_stats; otherwise the probe verdict is cached and
\* written to health_status
HealthCheckPort(stats, cache, port, outcome) ==
    IF port \in DOMAIN cache
      THEN [result |-> cache[port], stats |-> stats, cache |-> cache]
      ELSE LET is_healthy == (outcome = "200")
               s == Touch(stats, port)
           IN [result |-> is_healthy,
               stats |-> [s EXCEPT ![port].health_status =
                            IF is_healthy THEN "healthy" ELSE "unhealthy"],
               cache |-> IF port \in DOMAIN cache
                           THEN [cache EXCEPT ![port] = is_healthy]
                           ELSE cache @@ (port :> is_healthy)]

\* the for loop of get_healthy_ports from position i on; acc carries the
\* healthy list and the pool state the probes have written so far
RECURSIVE HealthyLoop(_, _, _)
HealthyLoop(i, acc, outcomes) ==
    IF i > Len(ports) THEN acc
    ELSE LET port == ports[i]
             s == Touch(acc.stats, port)
         IN IF s[port].health_status = "healthy"
              THEN HealthyLoop(i + 1,
                     [acc EXCEPT !.healthy = Append(@, port), !.stats = s],
                     outcomes)
            ELSE IF s[port].health_status = "unknown"
              THEN LET r == HealthCheckPort(s, acc.cache, port, outcomes[port])
                   IN HealthyLoop(i + 1,
                        [healthy |-> IF r.result THEN Append(acc.healthy, port)
                                                 ELSE acc.healthy,
                         stats |-> r.stats, cache |-> r.cache],
                        outcomes)
            ELSE HealthyLoop(i + 1, [acc EXCEPT !.stats = s], outcomes)

\* return healthy if healthy else self.ports
FailOpen_Mutant(healthy, all) == healthy
FailOpen(healthy, all) == IF healthy # << >> THEN healthy ELSE all

\* the status a port shows to a reader of port_stats
StatusOf(stats, port) ==
    IF port \in DOMAIN stats THEN stats[port].health_status ELSE "unknown"

\* get_healthy_ports; the probes it issues are those of the ports it finds
\* unknown. healthy_call records the call for the properties: the statuses
\* it found, the probe outcomes it was given, what it returned
GetHealthyPorts ==
    /\ health_ops < MaxHealthOps
    /\ health_ops' = health_ops + 1
    /\ \E outcomes \in [{p \in PortSet : StatusOf(port_stats, p) = "unknown"}
                          -> ProbeOutcomes] :
         LET r == HealthyLoop(1, [healthy |-> << >>, stats |-> port_stats,
                                  cache |-> health_cache], outcomes)
         IN /\ port_stats' = r.stats
            /\ health_cache' = r.cache
            /\ healthy_call' =
                 [called |-> TRUE,
                  ret |-> FailOpen(r.healthy, ports),
                  status |-> [p \in PortSet |-> StatusOf(port_stats, p)],
                  outcomes |-> outcomes]
    /\ UNCHANGED <<enabled, instance_count, ports, current_index, port_lock,
                   pc, port_used, calls, returned, dispatchVars, scrapeVars, extVars>>

\* a caller runs health_check_port(port)
HealthCheckPortCall(port) ==
    /\ health_ops < MaxHealthOps
    /\ health_ops' = health_ops + 1
    /\ \E outcome \in ProbeOutcomes :
         LET r == HealthCheckPort(port_stats, health_cache, port, outcome)
         IN /\ port_stats' = r.stats
            /\ health_cache' = r.cache
    /\ UNCHANGED <<enabled, instance_count, ports, current_index, port_lock,
                   pc, port_used, calls, returned, healthy_call, dispatchVars, scrapeVars, extVars>>

\* time.time() - cached_time reaches health_cache_timeout: the entry of port
\* no longer answers a check
ExpireCache(port) ==
    /\ port \in DOMAIN health_cache
    /\ health_cache' = [p \in DOMAIN health_cache \ {port} |-> health_cache[p]]
    /\ UNCHANGED <<enabled, instance_count, ports, current_index, port_lock,
                   port_stats, pc, port_used, calls, returned, health_ops,
                   healthy_call, dispatchVars, scrapeVars, extVars>>

\* ------------------------------------------------------- search dispatcher

\* SEARCH_ENGINES in catalog order, reduced to three enabled descriptors with
\* the priorities of its first entries, and one descriptor switched off
\* through its "enabled" key
Catalog ==
    << [id |-> "A", priority |-> 1, enabled |-> TRUE],
       [id |-> "D", priority |-> 1, enabled |-> FALSE],
       [id |-> "B", priority |-> 2, enabled |-> TRUE],
       [id |-> "C", priority |-> 1, enabled |-> TRUE] >>

Engines == {Catalog[i].id : i \in 1..Len(Catalog)}
TaskIds == Engines \cup {"telegram"}

\* the ids of the enabled descriptors
EnabledIds == {Catalog[i].id : i \in {j \in 1..Len(Catalog) : Catalog[j].enabled}}

\* result lists a task can return: one link, another link, and a list with
\* an entry without a link followed by the same link twice
ResultLists == {<<"X">>, <<"Y">>, <<"", "Y", "Y">>}

\* what a task can do: return a list of {title, link} entries, degrade to the
\* empty list after a fetch failure, or let an exception out of future.result()
Behaviours ==
    {[kind |-> "ok", links |-> ls] : ls \in ResultLists}
    \cup {[kind |-> "fail", links |-> << >>], [kind |-> "raise", links |-> << >>]}

\* is_telegram_configured() under the default configuration
\* (TELEGRAM_ENABLED unset)
TelegramConfigured == FALSE

\* the entries of a returned list; the title names the task and the position
\* the entry came from
Entries(task, links) ==
    [i \in 1..Len(links) |-> [link |-> links[i], title |-> <<task, i>>]]

\* list.sort(key=priority): stable insertion of x into a sorted list
RECURSIVE InsertByPriority(_, _)
InsertByPriority(sorted, x) ==
    IF sorted = << >> THEN <<x>>
    ELSE IF x.priority < Head(sorted).priority THEN <<x>> \o sorted
    ELSE <<Head(sorted)>> \o InsertByPriority(Tail(sorted), x)

RECURSIVE SortByPriority(_)
SortByPriority(list) ==
    IF list = << >> THEN << >>
    ELSE InsertByPriority(SortByPriority(SubSeq(list, 1, Len(list) - 1)),
                          list[Len(list)])

\* _engine_stats entries: the keys the writer created and their counters
HealthStatsEntry ==
    [keys |-> "checks", checks |-> 0, healthy |-> 0,
     requests |-> 0, successes |-> 0, results |-> 0]
RequestStatsEntry ==
    [keys |-> "requests", checks |-> 0, healthy |-> 0,
     requests |-> 0, successes |-> 0, results |-> 0]

\* outcomes of the test query of check_search_engine_health: a status in
\* [200, 404, 403], another status, an exception
EngineProbeOutcomes == {"alive", "dead", "exception"}

\* check_search_engine_health for an enabled engine on pool state
\* (index, pstats); ret is "true", "false" or "raise" (a KeyError leaving
\* the except block when the _engine_stats entry lacks the "checks" key)
CheckSearchEngineHealth(e, health, estats, index, pstats, outcome) ==
    IF e \in DOMAIN health
      THEN [ret |-> IF health[e] THEN "true" ELSE "false", health |-> health,
            estats |-> estats, index |-> index, pstats |-> pstats]
      ELSE LET sel == GetProxy(NoPort, index, pstats)
               is_healthy == (outcome = "alive")
               created == IF e \in DOMAIN estats THEN estats
                          ELSE estats @@ (e :> HealthStatsEntry)
               has_key == created[e].keys = "checks"
               counted == [created EXCEPT
                             ![e].checks = @ + 1,
                             ![e].healthy = IF is_healthy THEN @ + 1 ELSE @]
           IN IF has_key
                THEN [ret |-> IF is_healthy THEN "true" ELSE "false",
                      health |-> health @@ (e :> is_healthy),
                      estats |-> counted,
                      index |-> sel.index, pstats |-> sel.stats]
                ELSE [ret |-> "raise",
                      health |-> health @@ (e :> FALSE),
                      estats |-> estats,
                      index |-> sel.index, pstats |-> sel.stats]

\* the health loop of get_enabled_search_engines over the sorted engines from
\* position i on
RECURSIVE HealthPartition(_, _, _, _)
HealthPartition(sorted, i, acc, outcomes) ==
    IF i > Len(sorted) \/ acc.raised THEN acc
    ELSE LET e == sorted[i].id
             r == CheckSearchEngineHealth(e, acc.health, acc.estats,
                                          acc.index, acc.pstats, outcomes[e])
         IN HealthPartition(sorted, i + 1,
              [healthy |-> IF r.ret = "true" THEN Append(acc.healthy, e)
                                             ELSE acc.healthy,
               unhealthy |-> IF r.ret = "false" THEN Append(acc.unhealthy, e)
                                                ELSE acc.unhealthy,
               raised |-> r.ret = "raise",
               health |-> r.health, estats |-> r.estats,
               index |-> r.index, pstats |-> r.pstats],
              outcomes)

\* get_enabled_search_engines: the ordered engine ids and the state it leaves
GetEnabledSearchEngines(skip, health, estats, index, pstats, outcomes) ==
    LET enabledEngines == SelectSeq(Catalog, LAMBDA c : c.enabled)
        sorted == SortByPriority(enabledEngines)
        start == [healthy |-> << >>, unhealthy |-> << >>, raised |-> FALSE,
                  health |-> health, estats |-> estats,
                  index |-> index, pstats |-> pstats]
    IN IF skip
         THEN [start EXCEPT !.healthy = [i \in 1..Len(sorted) |-> sorted[i].id]]
         ELSE HealthPartition(sorted, 1, start, outcomes)

\* the cache window of check_search_engine_health in seconds
HEALTH_CACHE_TTL == 300

\* time.time() - cached_time < 300 for an entry written at stamp, read at t
CacheFresh_Mutant(stamp, t) == t - stamp <= HEALTH_CACHE_TTL
CacheFresh(stamp, t) == t - stamp < HEALTH_CACHE_TTL

\* the entries of _engine_health that check_search_engine_health answers from
FreshHealth ==
    LET fresh == {e \in DOMAIN engine_health : CacheFresh(engine_stamp[e], now)}
    IN [e \in fresh |-> engine_health[e]]

\* the engines whose test query was sent by a call that found the entries
\* view and left the entries after
Checked(view, after) == DOMAIN after \ DOMAIN view

\* _engine_health after such a call: the entries written replace the old ones
Recached(after) ==
    [e \in DOMAIN engine_health \cup DOMAIN after |->
        IF e \in DOMAIN after THEN after[e] ELSE engine_health[e]]

\* the times of the entries after such a call
Restamped(view, after) ==
    [e \in DOMAIN engine_stamp |->
        IF e \in Checked(view, after) THEN now ELSE engine_stamp[e]]

\* the test queries sent so far after such a call
Recounted(view, after) ==
    [e \in DOMAIN net_checks |->
        IF e \in Checked(view, after) THEN net_checks[e] + 1 ELSE net_checks[e]]

NoOutput == [kind |-> "none", entries |-> << >>]
NoReturn == [kind |-> "none", value |-> << >>]

\* module state of search.py at import and no dispatch started
DispatchInit ==
    /\ engine_health = << >>
    /\ engine_stats = << >>
    /\ d_phase = "idle"
    /\ max_workers = 0
    /\ d_tasks = << >>
    /\ t_state = [k \in TaskIds |-> "none"]
    /\ t_port = [k \in TaskIds |-> NoPort]
    /\ t_out = [k \in TaskIds |-> NoOutput]
    /\ fanin = << >>
    /\ consumed = 0
    /\ completion = << >>
    /\ results = << >>
    /\ tor_verified = FALSE
    /\ d_ret = NoReturn

\* get_search_results up to the end of the submit loop: verify_tor_connection
\* (its verdict is only logged), get_enabled_search_engines, the task list,
\* executor.submit for every task
Dispatch(workers, include_telegram, skip, verify, outcomes) ==
    /\ d_phase = "idle"
    /\ LET v == GetProxy(NoPort, current_index, port_stats)
           g == GetEnabledSearchEngines(skip, FreshHealth, engine_stats,
                                        v.index, v.stats, outcomes)
           tasks == g.healthy \o g.unhealthy \o
                    (IF include_telegram /\ TelegramConfigured
                       THEN <<"telegram">> ELSE << >>)
       IN /\ tor_verified' = (verify = "200")
          /\ current_index' = g.index
          /\ port_stats' = g.pstats
          /\ engine_health' = Recached(g.health)
          /\ engine_stamp' = Restamped(FreshHealth, g.health)
          /\ net_checks' = Recounted(FreshHealth, g.health)
          /\ engine_stats' = g.estats
          /\ max_workers' = workers
          /\ IF g.raised
               THEN /\ d_phase' = "done"
                    /\ d_ret' = [kind |-> "raised", value |-> << >>]
                    /\ UNCHANGED <<d_tasks, t_state>>
               ELSE /\ d_phase' = "submitted"
                    /\ d_tasks' = tasks
                    /\ t_state' = [k \in TaskIds |->
                                     IF \E i \in 1..Len(tasks) : tasks[i] = k
                                       THEN "queued" ELSE "none"]
                    /\ UNCHANGED d_ret
    /\ UNCHANGED <<enabled, instance_count, ports, port_lock, health_cache,
                   workerVars, engine_behaviour, t_port, t_out, fanin, consumed,
                   completion, results, scrapeVars, threadVars, s_kwargs,
                   fetch_call, now, probe_call, ordered_call, dispatch_calls,
                   auxVars>>

Position(seq, x) == CHOOSE i \in 1..Len(seq) : seq[i] = x

\* a worker thread of the executor takes the oldest queued task;
\* fetch_search_results selects its proxy from the pool
TaskStart(k) ==
    /\ d_phase \in {"submitted", "fanin", "draining"}
    /\ t_state[k] = "queued"
    /\ \A i \in 1..(Position(d_tasks, k) - 1) : t_state[d_tasks[i]] # "queued"
    /\ Cardinality({j \in TaskIds : t_state[j] = "running"}) < max_workers
    /\ t_state' = [t_state EXCEPT ![k] = "running"]
    /\ IF k = "telegram"
         THEN UNCHANGED <<current_index, port_stats, t_port, scrapeVars, extVars>>
         ELSE LET sel == GetProxy(NoPort, current_index, port_stats)
              IN /\ current_index' = sel.index
                 /\ port_stats' = sel.stats
                 /\ t_port' = [t_port EXCEPT ![k] = sel.port]
    /\ UNCHANGED <<enabled, instance_count, ports, port_lock, health_cache,
                   workerVars, engine_health, engine_stats, engine_behaviour,
                   d_phase, max_workers, d_tasks, t_out, fanin, consumed,
                   completion, results, tor_verified, d_ret, scrapeVars, extVars>>

\* a running task ends: fetch_search_results reports the outcome to the pool
\* and the future becomes done; a waiter installed by as_completed queues it
TaskFinish(k, b) ==
    /\ t_state[k] = "running"
    /\ b \in engine_behaviour[k]
    /\ t_state' = [t_state EXCEPT ![k] = "finished"]
    /\ t_out' = [t_out EXCEPT ![k] =
                   [kind |-> b.kind, entries |-> Entries(k, b.links)]]
    /\ port_stats' =
         IF k = "telegram" \/ b.kind = "raise" THEN port_stats
         ELSE IF b.kind = "ok" THEN RecordSuccess(port_stats, t_port[k])
         ELSE RecordFailure(port_stats, t_port[k])
    /\ completion' = Append(completion, k)
    /\ fanin' = IF d_phase = "fanin" THEN Append(fanin, k) ELSE fanin
    /\ UNCHANGED <<enabled, instance_count, ports, current_index, port_lock,
                   health_cache, workerVars, engine_health, engine_stats,
                   engine_behaviour, d_phase, max_workers, d_tasks, t_port,
                   consumed, results, tor_verified, d_ret, scrapeVars, extVars>>

\* all orders of the elements of a finite set
Orders(S) ==
    {q \in [1..Cardinality(S) -> S] : \A x \in S : \E i \in DOMAIN q : q[i] = x}

\* as_completed(future_to_task) is entered: the futures already done are
\* yielded first, in the iteration order of a set; the others follow as they
\* complete
AsCompleted(order) ==
    /\ d_phase = "submitted"
    /\ order \in Orders({k \in TaskIds : t_state[k] = "finished"})
    /\ fanin' = order
    /\ d_phase' = "fanin"
    /\ UNCHANGED <<poolVars, workerVars, engine_health, engine_stats,
                   engine_behaviour, max_workers, d_tasks, t_state, t_port,
                   t_out, consumed, completion, results, tor_verified, d_ret, scrapeVars, extVars>>

\* the _engine_stats bookkeeping of the fan-in loop for task k: the entry is
\* created with the request keys when missing, then counted; has_key is
\* false when an existing entry lacks the "requests" key (a KeyError)
RequestCounted(estats, k, raised, n) ==
    LET created == IF k \in DOMAIN estats THEN estats
                   ELSE estats @@ (k :> RequestStatsEntry)
        has_key == created[k].keys = "requests"
    IN [has_key |-> has_key,
        estats |-> IF ~has_key THEN estats
                   ELSE IF raised
                     THEN [created EXCEPT ![k].requests = @ + 1]
                     ELSE [created EXCEPT
                             ![k].requests = @ + 1,
                             ![k].successes = @ + 1,
                             ![k].results = @ + n]]

\* one iteration of the for loop over as_completed: the try block extends
\* results and counts the engine's request, the except block counts it too;
\* an _engine_stats entry without the "requests" key raises KeyError in the
\* try block and again in the except block, which ends the loop
Consume ==
    /\ d_phase = "fanin"
    /\ consumed < Len(fanin)
    /\ LET k == fanin[consumed + 1]
           raised == t_out[k].kind = "raise"
           c == RequestCounted(engine_stats, k, raised, Len(t_out[k].entries))
       IN /\ consumed' = consumed + 1
          /\ results' = IF raised THEN results ELSE results \o t_out[k].entries
          /\ engine_stats' = c.estats
          /\ IF c.has_key
               THEN UNCHANGED d_phase
               ELSE d_phase' = "draining"
    /\ UNCHANGED <<poolVars, workerVars, engine_health, engine_behaviour,
                   max_workers, d_tasks, t_state, t_port, t_out, fanin,
                   completion, tor_verified, d_ret, scrapeVars, extVars>>

\* the deduplication loop: first occurrence of each non-empty link
Deduplicate_Mutant(list, seen_links) == SelectSeq(list, LAMBDA res : res.link # "")
RECURSIVE Deduplicate(_, _)
Deduplicate(list, seen_links) ==
    IF list = << >> THEN << >>
    ELSE LET res == Head(list)
         IN IF res.link # "" /\ res.link \notin seen_links
              THEN <<res>> \o Deduplicate(Tail(list), seen_links \cup {res.link})
              ELSE Deduplicate(Tail(list), seen_links)

\* every future was yielded: the executor is left, results are deduplicated
\* and returned
Return ==
    /\ d_phase = "fanin"
    /\ consumed = Len(d_tasks)
    /\ d_phase' = "done"
    /\ d_ret' = [kind |-> "returned", value |-> Deduplicate(results, {})]
    /\ UNCHANGED <<poolVars, workerVars, engine_health, engine_stats,
                   engine_behaviour, max_workers, d_tasks, t_state, t_port,
                   t_out, fanin, consumed, completion, results, tor_verified, scrapeVars, extVars>>

\* the exception leaves the with block once executor.shutdown(wait=True) has
\* seen every submitted task finish, and then leaves get_search_results
Propagate ==
    /\ d_phase = "draining"
    /\ \A k \in TaskIds : t_state[k] \in {"none", "finished"}
    /\ d_phase' = "done"
    /\ d_ret' = [kind |-> "raised", value |-> << >>]
    /\ UNCHANGED <<poolVars, workerVars, engine_health, engine_stats,
                   engine_behaviour, max_workers, d_tasks, t_state, t_port,
                   t_out, fanin, consumed, completion, results, tor_verified, scrapeVars, extVars>>

\* ----------------------------------------------------------------- scraper

\* TOR_ROTATE_INTERVAL, the default of config.py
TOR_ROTATE_INTERVAL == 5

\* candidate links: one that ".onion" in url recognises, one clear-web link,
\* and the empty link
OnionLinks == {"http://a.onion/"}
ClearLinks == {"http://c.com/"}
ScrapeLinks == OnionLinks \cup ClearLinks \cup {""}

\* a clear-web link with ".onion" in its path
PathOnionLinks == {"http://c.com/a.onion"}

\* the text of a link, piece by piece
LinkText(link) ==
    CASE link = "http://a.onion/" -> <<"http://", "a", ".onion", "/">>
      [] link = "http://c.com/" -> <<"http://", "c", ".com", "/">>
      [] link = "http://c.com/a.onion" -> <<"http://", "c", ".com", "/", "a", ".onion">>
      [] OTHER -> << >>

\* use_tor = ".onion" in url: the substring test, anywhere in the link
UseTor(link) == \E i \in DOMAIN LinkText(link) : LinkText(link)[i] = ".onion"

\* the links for which use_tor is set
TorLinks == {link \in ScrapeLinks \cup PathOnionLinks : UseTor(link)}

\* a text of n characters c
Text(c, n) == [i \in 1..n |-> c]

\* page texts soup.get_text can yield: no text, a word, words between runs of
\* whitespace
Pages == {<< >>, <<" ", "p", " ", " ", "p", "p", "p", " ">>}

\* ' '.join(text.split()) from the left; atStart says that no character is
\* out yet or the last one out is a space
RECURSIVE Collapse(_, _)
Collapse(text, atStart) ==
    IF text = << >> THEN << >>
    ELSE IF Head(text) = " "
      THEN (IF atStart THEN << >> ELSE <<" ">>) \o Collapse(Tail(text), TRUE)
      ELSE <<Head(text)>> \o Collapse(Tail(text), FALSE)

Normalize(text) ==
    LET c == Collapse(text, TRUE)
    IN IF c # << >> /\ c[Len(c)] = " " THEN SubSeq(c, 1, Len(c) - 1) ELSE c

\* outcomes of session.get / raise_for_status / parsing in scrape_single
NetworkFailures == {"timeout", "connection_error", "proxy_error", "http_error"}
FetchOutcomes ==
    {"ok200", "non200", "request_exception", "unexpected"} \cup NetworkFailures

\* get_tor_controller: the global controller, created on first use when the
\* control port accepts the connection; calls counts the invocations of
\* rotate_circuit on it, rotation_count is TorController._rotation_count
NoController == [state |-> "none", rotation_count |-> 0, calls |-> 0]
ConnectedController == [NoController EXCEPT !.state = "connected"]
GetTorController(ctl, connect_ok) ==
    IF ctl.state = "none" /\ connect_ok THEN ConnectedController ELSE ctl

\* TorController.rotate_circuit: counts a NEWNYM signal that went through
RotateCircuit(ctl, signal_ok) ==
    LET called == [ctl EXCEPT !.calls = @ + 1]
    IN IF ctl.state = "connected" /\ signal_ok
         THEN [called EXCEPT !.rotation_count = @ + 1]
         ELSE called

\* controller = get_tor_controller(); if controller and
\* controller.is_connected(): controller.rotate_circuit()
RotateIfConnected(ctl, connect_ok, signal_ok) ==
    LET controller == GetTorController(ctl, connect_ok)
    IN IF controller.state = "connected"
         THEN RotateCircuit(controller, signal_ok)
         ELSE controller

\* scrape_single up to the request (lines 92-128) on state st =
\* [index, pstats, counter, ctl]: early return for an empty link, proxy
\* selection and the rotation policy for an onion link
SelectAndRotate(cand, rotate, rotate_interval, st, connect_ok, signal_ok) ==
    IF cand.link = "" THEN [step |-> "early", port |-> NoPort, st |-> st]
    ELSE IF cand.link \notin TorLinks
      THEN [step |-> "fetch", port |-> NoPort, st |-> st]
    ELSE
      LET sel == GetProxy(NoPort, st.index, st.pstats)
          selected == [st EXCEPT !.index = sel.index, !.pstats = sel.stats]
          interval == IF rotate_interval # 0 THEN rotate_interval
                                             ELSE TOR_ROTATE_INTERVAL
          counter == st.counter + 1
      IN IF ~rotate THEN [step |-> "fetch", port |-> sel.port, st |-> selected]
         ELSE [step |-> "fetch", port |-> sel.port,
               st |-> [selected EXCEPT
                         !.counter = counter,
                         !.ctl = IF counter % interval = 0
                                   THEN RotateIfConnected(@, connect_ok, signal_ok)
                                   ELSE @]]

\* ... and create_session_with_retry (line 134), outside every try: when it
\* raises (urllib3 before 1.26 rejects Retry(allowed_methods=...)), the
\* exception leaves scrape_single
ScrapeBegin(cand, rotate, rotate_interval, st, connect_ok, signal_ok, session_ok) ==
    LET b == SelectAndRotate(cand, rotate, rotate_interval, st, connect_ok, signal_ok)
    IN IF b.step = "fetch" /\ ~session_ok THEN [b EXCEPT !.step = "raise"] ELSE b

\* the text scrape_single returns for a fetch outcome: the normalised page
\* behind the title for a 200, the title alone otherwise
FetchText_Mutant(title, outcome, page) ==
    IF outcome = "ok200" THEN [kind |-> "returned", text |-> Normalize(title \o <<" ">> \o page)]
    ELSE IF outcome = "timeout" THEN [kind |-> "raised", text |-> << >>]
    ELSE [kind |-> "returned", text |-> title]
FetchText(title, outcome, page) ==
    IF outcome = "ok200"
      THEN [kind |-> "returned", text |-> Normalize(title \o <<" ">> \o page)]
      ELSE [kind |-> "returned", text |-> title]

\* the pool method the handler of a fetch outcome calls with port_used
RecordedAs(port, on_error, outcome) ==
    IF port = NoPort THEN "none"
    ELSE IF outcome = "ok200" THEN "success"
    ELSE IF outcome = "timeout" THEN (IF on_error THEN "failure" ELSE "none")
    ELSE IF outcome \in {"connection_error", "proxy_error"} THEN "failure"
    ELSE "none"

\* scrape_single from the request on (lines 136-203): the result and the
\* state the handlers leave
ScrapeEnd(cand, port, rotate, on_error, outcome, page, st, connect_ok, signal_ok) ==
    LET r == FetchText(cand.title, outcome, page)
        failed == [st EXCEPT !.pstats = RecordFailure(@, port)]
        rotated(s) == [s EXCEPT !.ctl = RotateIfConnected(@, connect_ok, signal_ok)]
    IN [kind |-> r.kind, url |-> cand.link, text |-> r.text,
        recorded |-> RecordedAs(port, on_error, outcome),
        st |-> IF outcome = "ok200"
                 THEN IF port # NoPort
                        THEN [st EXCEPT !.pstats = RecordSuccess(@, port)]
                        ELSE st
               ELSE IF outcome = "timeout"
                 THEN IF port # NoPort /\ on_error
                        THEN IF rotate THEN rotated(failed) ELSE failed
                        ELSE st
               ELSE IF outcome \in {"connection_error", "proxy_error"}
                 THEN IF port # NoPort
                        THEN IF on_error /\ rotate THEN rotated(failed) ELSE failed
                        ELSE st
               ELSE st]

ScrapeState ==
    [index |-> current_index, pstats |-> port_stats,
     counter |-> request_counter, ctl |-> tor_controller]

\* the shared state after a step of scrape_single
SetScrapeState(st) ==
    /\ current_index' = st.index
    /\ port_stats' = st.pstats
    /\ request_counter' = st.counter
    /\ tor_controller' = st.ctl

\* no call yet; a call is recorded with its arguments, what came back, and
\* what it did: whether the controller was connected when it began, the port
\* it used, the rotate_circuit calls of the cadence block and of the
\* handlers, the request counter when the request was issued and at the
\* return, and the pool method it reported to
NoSingleCall ==
    [called |-> FALSE, cand |-> << >>, rotate |-> FALSE, outcome |-> "",
     kind |-> "none", url |-> "", text |-> << >>,
     connected |-> FALSE, port |-> NoPort, cadence_calls |-> 0,
     error_calls |-> 0, counter_at_fetch |-> 0, counter_at_return |-> 0,
     recorded |-> "none"]

\* a caller runs scrape_single(url_data, rotate, rotate_interval) to the end;
\* single_call records the call and what came back
ScrapeSingleCall(cand, rotate, rotate_interval, outcome, page, connect_ok, signal_ok, session_ok) ==
    /\ scrape_calls < MaxScrapeCalls
    /\ scrape_calls' = scrape_calls + 1
    /\ LET b == ScrapeBegin(cand, rotate, rotate_interval, ScrapeState,
                            connect_ok, signal_ok, session_ok)
           e == ScrapeEnd(cand, b.port, rotate, rotate_on_error, outcome, page,
                          b.st, connect_ok, signal_ok)
           base == [NoSingleCall EXCEPT
                      !.called = TRUE, !.cand = cand, !.rotate = rotate,
                      !.outcome = outcome, !.kind = "",
                      !.connected = (tor_controller.state = "connected"),
                      !.port = b.port,
                      !.cadence_calls = b.st.ctl.calls - tor_controller.calls,
                      !.counter_at_fetch = b.st.counter,
                      !.counter_at_return = b.st.counter]
       IN IF b.step = "early"
            THEN /\ SetScrapeState(b.st)
                 /\ single_call' = [base EXCEPT !.outcome = "early", !.kind = "returned",
                                      !.url = cand.link, !.text = cand.title]
          ELSE IF b.step = "raise"
            THEN /\ SetScrapeState(b.st)
                 /\ single_call' = [base EXCEPT !.outcome = "session_error", !.kind = "raised"]
          ELSE /\ SetScrapeState(e.st)
               /\ single_call' = [base EXCEPT
                                    !.kind = e.kind, !.url = e.url, !.text = e.text,
                                    !.error_calls = e.st.ctl.calls - b.st.ctl.calls,
                                    !.counter_at_return = e.st.counter,
                                    !.recorded = e.recorded]
    /\ UNCHANGED <<enabled, instance_count, ports, port_lock, health_cache,
                   workerVars, dispatchVars, rotate_on_error, multiVars, extVars>>

\* ---------------------------------------------------------- scrape_multiple

NoResult == [kind |-> "none", url |-> "", text |-> << >>]

ScrapeInitWith(controller) ==
    /\ request_counter = 0
    /\ tor_controller = controller
    /\ scrape_calls = 0
    /\ single_call = NoSingleCall
    /\ s_phase = "idle"
    /\ s_cands = << >>
    /\ s_max_chars = 0
    /\ s_workers = 0
    /\ s_res = << >>
    /\ s_port = << >>
    /\ s_fanin = << >>
    /\ s_consumed = 0
    /\ s_results = << >>
    /\ s_ret = [kind |-> "none", value |-> << >>]

\* scrape.py at import: no controller yet
ScrapeInit == ScrapeInitWith(NoController)

\* candidate lists: links pairwise distinct
\* ... and a short or a long title
Titles == {Text("t", n) : n \in {1, MaxChars + 4}}
Candidates == {[link |-> l, title |-> t] : l \in ScrapeLinks, t \in Titles}
CandidateLists ==
    {cs \in UNION {[1..n -> Candidates] : n \in 0..MaxCandidates} :
        \A i, j \in DOMAIN cs : cs[i].link = cs[j].link => i = j}

\* scrape_multiple up to the end of the submit loop; an empty list returns {}
ScrapeMultiple(cands, workers, max_chars) ==
    /\ s_phase = "idle"
    /\ s_cands' = cands
    /\ s_workers' = workers
    /\ s_max_chars' = max_chars
    /\ s_res' = [i \in 1..Len(cands) |-> [NoResult EXCEPT !.kind = "queued"]]
    /\ s_port' = [i \in 1..Len(cands) |-> NoPort]
    /\ IF cands = << >>
         THEN /\ s_phase' = "done"
              /\ s_ret' = [kind |-> "returned", value |-> << >>]
         ELSE /\ s_phase' = "submitted"
              /\ UNCHANGED s_ret
    /\ UNCHANGED <<poolVars, workerVars, dispatchVars, rotate_on_error,
                   request_counter, tor_controller, scrape_calls, single_call,
                   s_fanin, s_consumed, s_results, extVars>>

\* scrape_multiple(urls_data, max_workers=..., rotate=..., rotate_interval=...)
\* as main.py, people_osint.py call it: the signature (line 205) has no such
\* parameters and the call raises TypeError before the body runs
ScrapeMultipleRotating(cands, workers, rotate, rotate_interval) ==
    /\ s_phase = "idle"
    /\ s_cands' = cands
    /\ s_workers' = workers
    /\ s_kwargs' = [given |-> TRUE, rotate |-> rotate,
                    rotate_interval |-> rotate_interval]
    /\ s_phase' = "done"
    /\ s_ret' = [kind |-> "raised", value |-> << >>]
    /\ UNCHANGED <<poolVars, workerVars, dispatchVars, rotate_on_error,
                   request_counter, tor_controller, scrape_calls, single_call,
                   s_max_chars, s_res, s_port, s_fanin, s_consumed, s_results,
                   threadVars, fetch_call, probeVars, auxVars>>

\* a worker thread takes the oldest queued candidate and runs
\* scrape_single(url_data) up to the request
ScrapeStart(i, session_ok) ==
    /\ s_phase \in {"submitted", "fanin"}
    /\ i \in DOMAIN s_res
    /\ s_res[i].kind = "queued"
    /\ \A j \in 1..(i - 1) : s_res[j].kind # "queued"
    /\ Cardinality({j \in DOMAIN s_res : s_res[j].kind = "running"}) < s_workers
    /\ LET b == ScrapeBegin(s_cands[i], FALSE, 0, ScrapeState, FALSE, FALSE,
                            session_ok)
       IN /\ SetScrapeState(b.st)
          /\ s_port' = [s_port EXCEPT ![i] = b.port]
          /\ IF b.step = "fetch"
               THEN /\ s_res' = [s_res EXCEPT ![i].kind = "running"]
                    /\ UNCHANGED <<s_fanin, extVars>>
               ELSE /\ s_res' = [s_res EXCEPT ![i] =
                          IF b.step = "early"
                            THEN [kind |-> "returned", url |-> s_cands[i].link,
                                  text |-> s_cands[i].title]
                            ELSE [NoResult EXCEPT !.kind = "raised"]]
                    /\ s_fanin' = IF s_phase = "fanin" THEN Append(s_fanin, i)
                                                       ELSE s_fanin
    /\ UNCHANGED <<enabled, instance_count, ports, port_lock, health_cache,
                   workerVars, dispatchVars, rotate_on_error, scrape_calls,
                   single_call, s_phase, s_cands, s_max_chars, s_workers,
                   s_consumed, s_results, s_ret, extVars>>

\* the request of a running worker ends and scrape_single returns
ScrapeFinish(i, outcome, page) ==
    /\ i \in DOMAIN s_res
    /\ s_res[i].kind = "running"
    /\ LET e == ScrapeEnd(s_cands[i], s_port[i], FALSE, rotate_on_error,
                          outcome, page, ScrapeState, FALSE, FALSE)
       IN /\ SetScrapeState(e.st)
          /\ s_res' = [s_res EXCEPT ![i] =
                         [kind |-> e.kind, url |-> e.url, text |-> e.text]]
    /\ s_fanin' = IF s_phase = "fanin" THEN Append(s_fanin, i) ELSE s_fanin
    /\ UNCHANGED <<enabled, instance_count, ports, port_lock, health_cache,
                   workerVars, dispatchVars, rotate_on_error, scrape_calls,
                   single_call, s_phase, s_cands, s_max_chars, s_workers,
                   s_port, s_consumed, s_results, s_ret, extVars>>

\* as_completed(future_to_url) is entered: futures already done come first in
\* the iteration order of a set
ScrapeAsCompleted(order) ==
    /\ s_phase = "submitted"
    /\ order \in Orders({i \in DOMAIN s_res : s_res[i].kind \in {"returned", "raised"}})
    /\ s_fanin' = order
    /\ s_phase' = "fanin"
    /\ UNCHANGED <<poolVars, workerVars, dispatchVars, rotate_on_error,
                   request_counter, tor_controller, scrape_calls, single_call,
                   s_cands, s_max_chars, s_workers, s_res, s_port, s_consumed,
                   s_results, s_ret, extVars>>

\* content[:max_chars] + "..." when len(content) > max_chars
Truncate(content, max_chars) ==
    IF Len(content) > max_chars
      THEN SubSeq(content, 1, max_chars) \o <<".", ".", ".">>
      ELSE content

\* results[key] = value
Put(map, key, value) ==
    [k \in DOMAIN map \cup {key} |-> IF k = key THEN value ELSE map[k]]

\* the except branch of the fan-in loop: the title under the candidate's link
Fallback_Mutant(map, cand) == map
Fallback(map, cand) == Put(map, cand.link, cand.title)

\* one iteration of the loop over as_completed in scrape_multiple
ScrapeConsume ==
    /\ s_phase = "fanin"
    /\ s_consumed < Len(s_fanin)
    /\ LET i == s_fanin[s_consumed + 1]
       IN s_results' =
            IF s_res[i].kind = "returned"
              THEN Put(s_results, s_res[i].url, Truncate(s_res[i].text, s_max_chars))
              ELSE Fallback(s_results, s_cands[i])
    /\ s_consumed' = s_consumed + 1
    /\ UNCHANGED <<poolVars, workerVars, dispatchVars, rotate_on_error,
                   request_counter, tor_controller, scrape_calls, single_call,
                   s_phase, s_cands, s_max_chars, s_workers, s_res, s_port,
                   s_fanin, s_ret, extVars>>

\* every future was yielded: scrape_multiple returns results
ScrapeReturn ==
    /\ s_phase = "fanin"
    /\ s_consumed = Len(s_cands)
    /\ s_phase' = "done"
    /\ s_ret' = [kind |-> "returned", value |-> s_results]
    /\ UNCHANGED <<poolVars, workerVars, dispatchVars, rotate_on_error,
                   request_counter, tor_controller, scrape_calls, single_call,
                   s_cands, s_max_chars, s_workers, s_res, s_port, s_fanin,
                   s_consumed, s_results, extVars>>

\* ------------------------------------------------- concurrent scrape_single

\* counter_lock is free for thread t
CounterLockFree_Mutant(t) == TRUE
CounterLockFree(t) == counter_lock = NoThread

\* rotation_interval = rotate_interval or TOR_ROTATE_INTERVAL
RotationInterval(rotate_interval) ==
    IF rotate_interval # 0 THEN rotate_interval ELSE TOR_ROTATE_INTERVAL

\* the handler of a fetch outcome goes on to rotate the circuit
RotatesOnError(port, rotate, on_error, outcome) ==
    /\ port # NoPort
    /\ rotate
    /\ on_error
    /\ outcome \in {"timeout", "connection_error", "proxy_error"}

NoRegisters == [read |-> 0, port |-> NoPort]

ThreadsInitWith(rotate, rotate_interval) ==
    /\ counter_lock = NoThread
    /\ w_pc = [t \in Threads |-> "idle"]
    /\ w_reg = [t \in Threads |-> NoRegisters]
    /\ w_rotate = rotate
    /\ w_interval = rotate_interval
    /\ w_failed = FALSE

ThreadsInit == ThreadsInitWith(FALSE, 0)

\* scrape_multiple called with its own parameters only
NoKeywords == [given |-> FALSE, rotate |-> FALSE, rotate_interval |-> 0]

\* the pool method fetch_search_results calls with port_used for a fetch
\* outcome: record_success after a 200, record_failure in the non-200 branch
\* and in every handler
SearchRecordedAs_Mutant(port, outcome) ==
    IF port = NoPort \/ outcome = "http_error" THEN "none"
    ELSE IF outcome = "ok200" THEN "success" ELSE "failure"
SearchRecordedAs(port, outcome) ==
    IF port = NoPort THEN "none"
    ELSE IF outcome = "ok200" THEN "success" ELSE "failure"

\* fetch_search_results on pool state (index, pstats): the proxy comes from
\* the pool, a 200 returns the links parsed from the page, every other
\* outcome the empty list
FetchSearchResults(outcome, links, index, pstats) ==
    LET sel == GetProxy(NoPort, index, pstats)
        recorded == SearchRecordedAs(sel.port, outcome)
    IN [kind |-> "returned",
        entries |-> IF outcome = "ok200" THEN links ELSE << >>,
        port |-> sel.port,
        recorded |-> recorded,
        index |-> sel.index,
        pstats |-> IF recorded = "success" THEN RecordSuccess(sel.stats, sel.port)
                   ELSE IF recorded = "failure" THEN RecordFailure(sel.stats, sel.port)
                   ELSE sel.stats]

\* the successes and failures the pool has counted for a port
Successes(stats, port) == IF port \in DOMAIN stats THEN stats[port].successes ELSE 0
Failures(stats, port) == IF port \in DOMAIN stats THEN stats[port].failures ELSE 0

NoFetchCall ==
    [called |-> FALSE, outcome |-> "", kind |-> "none", entries |-> << >>,
     port |-> NoPort, recorded |-> "none", successes_added |-> 0,
     failures_added |-> 0]

\* a caller runs fetch_search_results(endpoint, query) to the end; fetch_call
\* records the call, what came back and what the pool counted for the port
FetchCall(outcome, links) ==
    /\ calls < MaxFetchCalls
    /\ calls' = calls + 1
    /\ LET r == FetchSearchResults(outcome, links, current_index, port_stats)
       IN /\ current_index' = r.index
          /\ port_stats' = r.pstats
          /\ fetch_call' =
                [called |-> TRUE, outcome |-> outcome, kind |-> r.kind,
                 entries |-> r.entries, port |-> r.port, recorded |-> r.recorded,
                 successes_added |-> Successes(r.pstats, r.port)
                                       - Successes(port_stats, r.port),
                 failures_added |-> Failures(r.pstats, r.port)
                                      - Failures(port_stats, r.port)]
    /\ UNCHANGED <<enabled, instance_count, ports, port_lock, health_cache,
                   pc, port_used, returned, health_ops, healthy_call,
                   dispatchVars, scrapeVars, threadVars, s_kwargs,
                   probeVars, auxVars>>

\* ------------------------------------------- engine health probes over time

\* the statuses check_search_engine_health takes as healthy
HealthyStatuses == {200, 404, 403}

\* what the test query of a probe can come back with: a status, or an
\* exception of requests.get
TestQueries ==
    {[kind |-> "status", code |-> c] : c \in {200, 403, 404, 500}}
    \cup {[kind |-> k, code |-> 0] : k \in {"timeout"}}
NoQuery == [kind |-> "none", code |-> 0]

\* is_healthy = response.status_code in [200, 404, 403], and the except
\* branch for an exception
IsHealthyStatus(code) == code \in HealthyStatuses
ProbeOutcome(q) ==
    IF q.kind # "status" THEN "exception"
    ELSE IF IsHealthyStatus(q.code) THEN "alive" ELSE "dead"

EngineConfig(e) == Catalog[CHOOSE i \in 1..Len(Catalog) : Catalog[i].id = e]

\* what the test query of a direct probe of e can come back with at this
\* time: nothing when the probe sends none
QueriesFor(e) ==
    IF EngineConfig(e).enabled /\ e \notin DOMAIN FreshHealth
      THEN TestQueries ELSE {NoQuery}

NoProbeCall ==
    [n |-> 0, engine |-> "", query |-> NoQuery, ret |-> "none", at |-> 0,
     cached |-> FALSE, prior_verdict |-> FALSE, prior_stamp |-> 0,
     checks_added |-> 0, cached_after |-> FALSE, verdict_after |-> FALSE,
     stamp_after |-> 0]

\* a caller runs check_search_engine_health(e, config) to the end at time
\* now; q is what the test query would come back with. probe_call records
\* the entry found, the test queries sent, what came back and the entry left
ProbeEngine(e, q) ==
    /\ d_phase = "idle"
    /\ probe_call.n < MaxProbes
    /\ q \in QueriesFor(e)
    /\ LET view == FreshHealth
           r == IF EngineConfig(e).enabled
                  THEN CheckSearchEngineHealth(e, view, engine_stats,
                                               current_index, port_stats,
                                               ProbeOutcome(q))
                  ELSE [ret |-> "false", health |-> view,
                        estats |-> engine_stats, index |-> current_index,
                        pstats |-> port_stats]
           sent == e \in Checked(view, r.health)
           health == Recached(r.health)
       IN /\ engine_health' = health
          /\ engine_stamp' = Restamped(view, r.health)
          /\ net_checks' = Recounted(view, r.health)
          /\ engine_stats' = r.estats
          /\ current_index' = r.index
          /\ port_stats' = r.pstats
          /\ probe_call' =
                [n |-> probe_call.n + 1, engine |-> e,
                 query |-> IF sent THEN q ELSE NoQuery,
                 ret |-> r.ret, at |-> now,
                 cached |-> e \in DOMAIN engine_health,
                 prior_verdict |-> e \in DOMAIN engine_health /\ engine_health[e],
                 prior_stamp |-> engine_stamp[e],
                 checks_added |-> Recounted(view, r.health)[e] - net_checks[e],
                 cached_after |-> e \in DOMAIN health,
                 verdict_after |-> e \in DOMAIN health /\ health[e],
                 stamp_after |-> Restamped(view, r.health)[e]]
    /\ UNCHANGED <<enabled, instance_count, ports, port_lock, health_cache,
                   workerVars, engine_behaviour, d_phase, max_workers, d_tasks,
                   t_state, t_port, t_out, fanin, consumed, completion, results,
                   tor_verified, d_ret, scrapeVars, threadVars, s_kwargs,
                   fetch_call, now, ordered_call, dispatch_calls,
                   auxVars>>

NoOrderedCall ==
    [n |-> 0, skip |-> FALSE, kind |-> "none", list |-> << >>,
     healthy |-> {}, raised_on |-> {}]

\* a caller runs get_enabled_search_engines(skip_health_check=skip) to the
\* end at time now; ordered_call records the list returned, the engines whose
\* verdict is healthy when the health loop ends, and the engines whose
\* _engine_stats entry has the request keys when the call raises
EnabledOrdered(skip, outcomes) ==
    /\ d_phase = "idle"
    /\ ordered_call.n < MaxOrderedCalls
    /\ LET view == FreshHealth
           g == GetEnabledSearchEngines(skip, view, engine_stats, current_index,
                                        port_stats, outcomes)
       IN /\ engine_health' = Recached(g.health)
          /\ engine_stamp' = Restamped(view, g.health)
          /\ net_checks' = Recounted(view, g.health)
          /\ engine_stats' = g.estats
          /\ current_index' = g.index
          /\ port_stats' = g.pstats
          /\ ordered_call' =
                [n |-> ordered_call.n + 1, skip |-> skip,
                 kind |-> IF g.raised THEN "raised" ELSE "returned",
                 list |-> IF g.raised THEN << >> ELSE g.healthy \o g.unhealthy,
                 healthy |-> IF skip \/ g.raised THEN {}
                             ELSE {e \in DOMAIN g.health : g.health[e]},
                 raised_on |-> IF g.raised
                                 THEN {e \in DOMAIN g.estats :
                                         g.estats[e].keys = "requests"}
                                 ELSE {}]
    /\ UNCHANGED <<enabled, instance_count, ports, port_lock, health_cache,
                   workerVars, engine_behaviour, d_phase, max_workers, d_tasks,
                   t_state, t_port, t_out, fanin, consumed, completion, results,
                   tor_verified, d_ret, scrapeVars, threadVars, s_kwargs,
                   fetch_call, now, probe_call, dispatch_calls,
                   auxVars>>

\* the tasks of a get_search_results call run one after the other from
\* position i on: fetch_search_results on the pool, the length of each list
RECURSIVE RunTasks(_, _, _, _)
RunTasks(tasks, i, acc, fetches) ==
    IF i > Len(tasks) THEN acc
    ELSE LET k == tasks[i]
             r == FetchSearchResults(fetches[k], <<"X">>, acc.index, acc.pstats)
         IN RunTasks(tasks, i + 1,
              [index |-> r.index, pstats |-> r.pstats,
               lens |-> acc.lens @@ (k :> Len(r.entries))],
              fetches)

\* the fan-in loop over the finished tasks from position i on, up to the
\* first KeyError
RECURSIVE FanIn(_, _, _, _)
FanIn(tasks, i, acc, lens) ==
    IF i > Len(tasks) \/ acc.raised THEN acc
    ELSE LET c == RequestCounted(acc.estats, tasks[i], FALSE, lens[tasks[i]])
         IN FanIn(tasks, i + 1, [raised |-> ~c.has_key, estats |-> c.estats], lens)

\* a caller runs get_search_results(skip_health_check=skip) to the end at
\* time now, its tasks finishing in submission order before the fan-in loop
\* takes the first of them
SearchRun(skip, outcomes, fetches) ==
    /\ d_phase = "idle"
    /\ dispatch_calls < MaxSearchRuns
    /\ dispatch_calls' = dispatch_calls + 1
    /\ LET view == FreshHealth
           v == GetProxy(NoPort, current_index, port_stats)
           g == GetEnabledSearchEngines(skip, view, engine_stats, v.index,
                                        v.stats, outcomes)
           tasks == IF g.raised THEN << >> ELSE g.healthy \o g.unhealthy
           ran == RunTasks(tasks, 1,
                           [index |-> g.index, pstats |-> g.pstats,
                            lens |-> << >>], fetches)
           f == FanIn(tasks, 1, [raised |-> FALSE, estats |-> g.estats], ran.lens)
       IN /\ engine_health' = Recached(g.health)
          /\ engine_stamp' = Restamped(view, g.health)
          /\ net_checks' = Recounted(view, g.health)
          /\ engine_stats' = f.estats
          /\ current_index' = ran.index
          /\ port_stats' = ran.pstats
    /\ UNCHANGED <<enabled, instance_count, ports, port_lock, health_cache,
                   workerVars, engine_behaviour, d_phase, max_workers, d_tasks,
                   t_state, t_port, t_out, fanin, consumed, completion, results,
                   tor_verified, d_ret, scrapeVars, threadVars, s_kwargs,
                   fetch_call, now, probe_call, ordered_call,
                   auxVars>>

\* time passes between calls, half the cache window at a time
Tick ==
    /\ d_phase = "idle"
    /\ now < MaxTicks * (HEALTH_CACHE_TTL \div 2)
    /\ now' = now + HEALTH_CACHE_TTL \div 2
    /\ UNCHANGED <<poolVars, workerVars, dispatchVars, scrapeVars, threadVars,
                   s_kwargs, fetch_call, engine_stamp, net_checks, probe_call,
                   ordered_call, dispatch_calls, auxVars>>

\* search.py at import: no entry has a time, no test query was sent
ProbeInit ==
    /\ now = 0
    /\ engine_stamp = [e \in Engines |-> 0]
    /\ net_checks = [e \in Engines |-> 0]
    /\ probe_call = NoProbeCall
    /\ ordered_call = NoOrderedCall
    /\ dispatch_calls = 0

\* ------------------------------------------------------------ TorController

\* the locals of a thread inside a TorController method: what the object
\* held when the call started, the _rotation_count it loaded, the signals
\* this call sent, the increments it stored and the channels it released
NoCtlRegisters ==
    [before |-> [controller |-> "none", rotation_count |-> 0, last_rotation |-> 0],
     loaded |-> 0, sent |-> 0, stored |-> 0, released |-> 0]

NoCtlCall ==
    [op |-> "none", prev_op |-> "none", ret |-> "none", raised |-> FALSE,
     before |-> NoCtlRegisters.before, connected_after |-> FALSE,
     rotation_count_after |-> 0, last_rotation_after |-> 0,
     sent |-> 0, stored |-> 0, released |-> 0, port_ok |-> FALSE,
     auth_ok |-> FALSE]

\* TorController.__init__
ControllerInit ==
    /\ c_controller = "none"
    /\ c_rotation_count = 0
    /\ c_last_rotation = 0
    /\ c_signals = 0
    /\ c_opened = 0
    /\ c_released = 0
    /\ c_true_returns = 0
    /\ c_closed = FALSE
    /\ c_calls = 0
    /\ c_pc = [t \in Threads |-> "idle"]
    /\ c_reg = [t \in Threads |-> NoCtlRegisters]
    /\ c_last = NoCtlCall
    /\ c_auth = FALSE

\* is_connected(): self.controller is not None
IsConnected(controller) == controller # "none"

\* what the object holds when a call of thread t starts
CtlSnapshot ==
    [controller |-> c_controller, rotation_count |-> c_rotation_count,
     last_rotation |-> c_last_rotation]

\* the record of a call of thread t that returns ret (or raises) leaving
\* the controller field as controller and the count as count
CtlReturned(t, op, ret, raised, reg, controller, count, stamp, port_ok, auth_ok) ==
    [op |-> op, prev_op |-> c_last.op, ret |-> ret, raised |-> raised,
     before |-> reg.before, connected_after |-> IsConnected(controller),
     rotation_count_after |-> count, last_rotation_after |-> stamp,
     sent |-> reg.sent, stored |-> reg.stored, released |-> reg.released,
     port_ok |-> port_ok, auth_ok |-> auth_ok]

\* connect(), line 41: Controller.from_port; when it raises, the except
\* block sets self.controller = None and connect returns False
ConnectOpen(t, port_ok) ==
    /\ c_pc[t] = "idle"
    /\ c_calls < MaxCtlCalls
    /\ c_calls' = c_calls + 1
    /\ LET reg == [NoCtlRegisters EXCEPT !.before = CtlSnapshot]
       IN IF port_ok
            THEN /\ c_controller' = "open"
                 /\ c_opened' = c_opened + 1
                 /\ c_pc' = [c_pc EXCEPT ![t] = "L43"]
                 /\ c_reg' = [c_reg EXCEPT ![t] = reg]
                 /\ UNCHANGED c_last
            ELSE /\ c_controller' = "none"
                 /\ c_last' = CtlReturned(t, "connect", "false", FALSE, reg, "none",
                                          c_rotation_count, c_last_rotation,
                                          FALSE, FALSE)
                 /\ c_reg' = [c_reg EXCEPT ![t] = reg]
                 /\ UNCHANGED <<c_opened, c_pc>>
    /\ c_auth' = FALSE
    /\ UNCHANGED <<nonCtlVars, c_rotation_count, c_last_rotation, c_signals,
                   c_released, c_true_returns, c_closed>>

\* the controller field after self.controller.authenticate(...): kept when
\* it succeeds, set to None by the except block when it raises
AfterAuthenticate_Mutant(controller, auth_ok) == controller
AfterAuthenticate(controller, auth_ok) == IF auth_ok THEN controller ELSE "none"

\* connect(), lines 43-54: authenticate with the password or the cookie on
\* self.controller; a field another thread has set to None meanwhile makes
\* the call raise AttributeError into the same except block
ConnectAuthenticate(t, auth_ok) ==
    /\ c_pc[t] = "L43"
    /\ LET ok == auth_ok /\ IsConnected(c_controller)
           controller == AfterAuthenticate(c_controller, ok)
       IN /\ c_controller' = controller
          /\ c_last' = CtlReturned(t, "connect", IF ok THEN "true" ELSE "false",
                                   FALSE, c_reg[t], controller, c_rotation_count,
                                   c_last_rotation, TRUE, auth_ok)
    /\ c_pc' = [c_pc EXCEPT ![t] = "idle"]
    /\ c_auth' = (auth_ok /\ IsConnected(c_controller))
    /\ UNCHANGED <<nonCtlVars, c_rotation_count, c_last_rotation, c_signals,
                   c_opened, c_released, c_true_returns, c_closed,
                   c_calls, c_reg>>

\* rotate_circuit(), lines 72-74: not connected, return False
RotateCheck(t) ==
    /\ c_pc[t] = "idle"
    /\ c_calls < MaxCtlCalls
    /\ c_calls' = c_calls + 1
    /\ LET reg == [NoCtlRegisters EXCEPT !.before = CtlSnapshot]
       IN /\ c_reg' = [c_reg EXCEPT ![t] = reg]
          /\ IF IsConnected(c_controller)
               THEN /\ c_pc' = [c_pc EXCEPT ![t] = "L77"]
                    /\ UNCHANGED c_last
               ELSE /\ c_last' = CtlReturned(t, "rotate", "false", FALSE, reg,
                                             c_controller, c_rotation_count,
                                             c_last_rotation, FALSE, FALSE)
                    /\ UNCHANGED c_pc
    /\ UNCHANGED <<nonCtlVars, c_auth, c_controller, c_rotation_count, c_last_rotation,
                   c_signals, c_opened, c_released, c_true_returns,
                   c_closed>>

\* lines 77-78: self.controller.signal(Signal.NEWNYM) and
\* _last_rotation_time; when the signal raises (or the field is None by
\* now) the except block returns False
RotateSignal(t, signal_ok) ==
    /\ c_pc[t] = "L77"
    /\ IF signal_ok /\ IsConnected(c_controller)
         THEN /\ c_signals' = c_signals + 1
              /\ c_last_rotation' = c_signals + 1
              /\ c_reg' = [c_reg EXCEPT ![t].sent = 1]
              /\ c_pc' = [c_pc EXCEPT ![t] = "L79"]
              /\ UNCHANGED c_last
         ELSE /\ c_last' = CtlReturned(t, "rotate", "false", FALSE, c_reg[t],
                                       c_controller, c_rotation_count,
                                       c_last_rotation, FALSE, FALSE)
              /\ c_pc' = [c_pc EXCEPT ![t] = "idle"]
              /\ UNCHANGED <<c_signals, c_last_rotation, c_reg>>
    /\ UNCHANGED <<nonCtlVars, c_auth, c_controller, c_rotation_count, c_opened,
                   c_released, c_true_returns, c_closed, c_calls>>

\* line 79, self._rotation_count += 1: the load
RotateLoad(t) ==
    /\ c_pc[t] = "L79"
    /\ c_reg' = [c_reg EXCEPT ![t].loaded = c_rotation_count]
    /\ c_pc' = [c_pc EXCEPT ![t] = "L79s"]
    /\ UNCHANGED <<nonCtlVars, c_auth, c_controller, c_rotation_count, c_last_rotation,
                   c_signals, c_opened, c_released, c_true_returns,
                   c_closed, c_calls, c_last>>

\* line 79: the store
RotateStore(t) ==
    /\ c_pc[t] = "L79s"
    /\ c_rotation_count' = c_reg[t].loaded + 1
    /\ c_reg' = [c_reg EXCEPT ![t].stored = 1]
    /\ c_pc' = [c_pc EXCEPT ![t] = "L89"]
    /\ UNCHANGED <<nonCtlVars, c_auth, c_controller, c_last_rotation, c_signals,
                   c_opened, c_released, c_true_returns, c_closed,
                   c_calls, c_last>>

\* lines 82-90: get_exit_node_info (which catches its own exceptions), the
\* log line, time.sleep(2), return True
RotateReturn(t) ==
    /\ c_pc[t] = "L89"
    /\ c_true_returns' = c_true_returns + 1
    /\ c_last' = CtlReturned(t, "rotate", "true", FALSE, c_reg[t], c_controller,
                             c_rotation_count, c_last_rotation, FALSE, FALSE)
    /\ c_pc' = [c_pc EXCEPT ![t] = "idle"]
    /\ UNCHANGED <<nonCtlVars, c_auth, c_controller, c_rotation_count, c_last_rotation,
                   c_signals, c_opened, c_released, c_closed, c_calls,
                   c_reg>>

\* close(), line 182: nothing to do when self.controller is None
CloseCheck(t) ==
    /\ c_pc[t] = "idle"
    /\ c_calls < MaxCtlCalls
    /\ c_calls' = c_calls + 1
    /\ c_closed' = (c_closed \/ ~IsConnected(c_controller))
    /\ LET reg == [NoCtlRegisters EXCEPT !.before = CtlSnapshot]
       IN /\ c_reg' = [c_reg EXCEPT ![t] = reg]
          /\ IF IsConnected(c_controller)
               THEN /\ c_pc' = [c_pc EXCEPT ![t] = "L184"]
                    /\ UNCHANGED c_last
               ELSE /\ c_last' = CtlReturned(t, "close", "none", FALSE, reg,
                                             c_controller, c_rotation_count,
                                             c_last_rotation, FALSE, FALSE)
                    /\ UNCHANGED c_pc
    /\ UNCHANGED <<nonCtlVars, c_auth, c_controller, c_rotation_count, c_last_rotation,
                   c_signals, c_opened, c_released, c_true_returns>>

\* the controller field after the try of close(): the finally block sets it
\* to None whether self.controller.close() raised or not
AfterClose_Mutant(controller, close_ok) == IF close_ok THEN "none" ELSE controller
AfterClose(controller, close_ok) == "none"

\* close(), lines 183-189: self.controller.close(), exceptions logged, the
\* field set to None
CloseRelease(t, close_ok) ==
    /\ c_pc[t] = "L184"
    /\ LET held == IsConnected(c_controller)
           controller == AfterClose(c_controller, close_ok /\ held)
           reg == [c_reg[t] EXCEPT !.released = IF held THEN 1 ELSE 0]
       IN /\ c_released' = IF held THEN c_released + 1 ELSE c_released
          /\ c_controller' = controller
          /\ c_reg' = [c_reg EXCEPT ![t] = reg]
          /\ c_last' = CtlReturned(t, "close", "none", FALSE, reg, controller,
                                   c_rotation_count, c_last_rotation, FALSE, FALSE)
    /\ c_closed' = TRUE
    /\ c_pc' = [c_pc EXCEPT ![t] = "idle"]
    /\ c_auth' = FALSE
    /\ UNCHANGED <<nonCtlVars, c_rotation_count, c_last_rotation, c_signals,
                   c_opened, c_true_returns, c_calls>>

\* the steps of thread t on the object
ControllerStep(t) ==
    \/ \E port_ok \in BOOLEAN : ConnectOpen(t, port_ok)
    \/ \E auth_ok \in BOOLEAN : ConnectAuthenticate(t, auth_ok)
    \/ RotateCheck(t)
    \/ \E signal_ok \in BOOLEAN : RotateSignal(t, signal_ok)
    \/ RotateLoad(t)
    \/ RotateStore(t)
    \/ RotateReturn(t)
    \/ CloseCheck(t)
    \/ \E close_ok \in BOOLEAN : CloseRelease(t, close_ok)

\* ---------------------------------------------------------- indicator merge

\* indicator types and values: an indicator dictionary maps some of the
\* types to a set of values each
IocTypes == {"ipv4", "onion"}
IocValues == 1..MaxIocValues
IocDicts == UNION {[T -> SUBSET IocValues] : T \in SUBSET IocTypes}

\* the inner loop of merge_iocs over one dictionary: a type not yet in
\* merged starts as set(), then merged[ioc_type].update(values)
MergeInto_Mutant(merged, ioc_dict) == [t \in DOMAIN merged \cup DOMAIN ioc_dict |-> IF t \in DOMAIN ioc_dict THEN ioc_dict[t] ELSE merged[t]]
MergeInto(merged, ioc_dict) ==
    LET started == [t \in DOMAIN merged \cup DOMAIN ioc_dict |->
                      IF t \in DOMAIN merged THEN merged[t] ELSE {}]
    IN [t \in DOMAIN started |->
          IF t \in DOMAIN ioc_dict THEN started[t] \cup ioc_dict[t]
                                   ELSE started[t]]

\* the outer loop of merge_iocs over its arguments, left to right
RECURSIVE MergeLoop(_, _)
MergeLoop(merged, ioc_dicts) ==
    IF ioc_dicts = << >> THEN merged
    ELSE MergeLoop(MergeInto(merged, Head(ioc_dicts)), Tail(ioc_dicts))

\* merge_iocs(*ioc_dicts): merged starts as {}
merge_iocs(ioc_dicts) == MergeLoop([t \in {} |-> {}], ioc_dicts)

NoMerge ==
    [done |-> FALSE, ab |-> << >>, ba |-> << >>, ab_c |-> << >>,
     a_bc |-> << >>, ab_a |-> << >>, aa |-> << >>, abc |-> << >>]

\* no merge_iocs call is made
MergeInit ==
    /\ m_dicts = << >>
    /\ m_out = NoMerge

\* the caller merges the dictionaries a, b, c it holds in the ways main.py
\* accumulates them (merge_iocs(all_iocs, iocs), lines 186, 328, 390), in
\* either order and grouping, and all at once
MergeCalls ==
    /\ ~m_out.done
    /\ Len(m_dicts) = 3
    /\ LET a == m_dicts[1]
           b == m_dicts[2]
           c == m_dicts[3]
       IN m_out' = [done |-> TRUE,
                    ab |-> merge_iocs(<<a, b>>),
                    ba |-> merge_iocs(<<b, a>>),
                    ab_c |-> merge_iocs(<<merge_iocs(<<a, b>>), c>>),
                    a_bc |-> merge_iocs(<<a, merge_iocs(<<b, c>>)>>),
                    ab_a |-> merge_iocs(<<merge_iocs(<<a, b>>), a>>),
                    aa |-> merge_iocs(<<a, a>>),
                    abc |-> merge_iocs(<<a, b, c>>)]
    /\ UNCHANGED <<poolVars, workerVars, dispatchVars, scrapeVars, threadVars,
                   s_kwargs, fetch_call, probeVars, poolAuxVars, ctlVars,
                   m_dicts, moreVars>>

\* ------------------------------------------------------ indicator extraction

\* the keys of IOC_PATTERNS, in the order of the dict
IOC_PATTERNS == <<"ipv4", "ipv6", "domain", "onion", "email", "url", "md5", "sha1", "sha256", "bitcoin", "ethereum", "phone">>
PatternKeys == {IOC_PATTERNS[i] : i \in DOMAIN IOC_PATTERNS}

\* a text is words joined by single spaces; the words are those of the
\* extraction scenario
Md5Word == "d41d8cd98f00b204e9800998ecf8427e"
BtcWord == "1A1zP1eP5QGefi2DMPTfTL5SLmv7DivfNa"
ScenarioText == <<"Contact", "admin@example.com", "at", "1.2.3.4,", "hash", Md5Word, "(MD5),", "BTC", BtcWord>>
Words == {"Contact", "admin@example.com", "1.2.3.4,", Md5Word, BtcWord}

\* IOC_PATTERNS[ioc_type].findall(word): the email pattern takes the whole
\* address and the domain pattern the host inside it, the ipv4 pattern
\* stops at the \b before the comma; no other pattern matches in these
\* words
WordMatches(ioc_type, word) ==
    CASE ioc_type = "email" /\ word = "admin@example.com" -> <<"admin@example.com">>
      [] ioc_type = "domain" /\ word = "admin@example.com" -> <<"example.com">>
      [] ioc_type = "ipv4" /\ word = "1.2.3.4," -> <<"1.2.3.4">>
      [] ioc_type = "md5" /\ word = Md5Word -> <<Md5Word>>
      [] ioc_type = "bitcoin" /\ word = BtcWord -> <<BtcWord>>
      [] OTHER -> << >>

\* IOC_PATTERNS[ioc_type].findall(text): the matches from left to right; no
\* match of these patterns spans the space between two of the words
RECURSIVE Findall(_, _)
Findall(ioc_type, text) ==
    IF text = << >> THEN << >>
    ELSE WordMatches(ioc_type, Head(text)) \o Findall(ioc_type, Tail(text))

\* set(matches)
SetOf(matches) == {matches[i] : i \in DOMAIN matches}

\* one iteration of the loop of extract_iocs: a known type with matches gets
\* iocs[ioc_type] = set(matches)
ExtractInto_Mutant(iocs, ioc_type, text) == IF ioc_type \in PatternKeys THEN Put(iocs, ioc_type, SetOf(Findall(ioc_type, text))) ELSE iocs
ExtractInto(iocs, ioc_type, text) ==
    IF ioc_type \in PatternKeys /\ Findall(ioc_type, text) # << >>
      THEN Put(iocs, ioc_type, SetOf(Findall(ioc_type, text)))
      ELSE iocs

RECURSIVE ExtractLoop(_, _, _)
ExtractLoop(iocs, ioc_types, text) ==
    IF ioc_types = << >> THEN iocs
    ELSE ExtractLoop(ExtractInto(iocs, Head(ioc_types), text), Tail(ioc_types), text)

\* ioc_types=None
AllTypes == <<"None">>

\* extract_iocs(text, ioc_types)
extract_iocs(text, ioc_types) ==
    ExtractLoop([t \in {} |-> {}],
                IF ioc_types = AllTypes THEN IOC_PATTERNS ELSE ioc_types, text)

\* the type lists callers pass: known names and one IOC_PATTERNS lacks, in
\* any order and with repetitions, or None
RequestNames == {"ipv4", "domain", "email", "nosuch"}
TypeLists ==
    UNION {[1..n -> RequestNames] : n \in 0..MaxTypeList} \cup {AllTypes}

\* the texts: up to MaxWords words, and the scenario
Texts == UNION {[1..n -> Words] : n \in 0..MaxWords} \cup {ScenarioText}

ExtractInit ==
    /\ x_text = << >>
    /\ x_calls = << >>

\* a caller runs extract_iocs(x_text, ioc_types); neither the text nor
\* IOC_PATTERNS is written by the call
ExtractCall(ioc_types) ==
    /\ Len(x_calls) < MaxExtractCalls
    /\ x_calls' = Append(x_calls, [types |-> ioc_types,
                                   iocs |-> extract_iocs(x_text, ioc_types)])
    /\ UNCHANGED <<poolVars, workerVars, dispatchVars, scrapeVars, threadVars,
                   s_kwargs, fetch_call, probeVars, poolAuxVars, ctlVars,
                   mergeVars, x_text, retryVars, statVars, globalVars>>

\* ------------------------------------------------------ retry_with_backoff

\* what an invocation of the wrapped function does: it returns, raises an
\* exception of the exceptions tuple, or raises another one
CallOutcomes == {"returns", "raises_listed", "raises_other"}

\* what a connection attempt of session.get does
ConnectOutcomes == {"ok200", "connection_error"}

\* max_retries of the decorator on scrape_single and of the session it
\* creates
SCRAPE_MAX_RETRIES == 2
SESSION_MAX_RETRIES == 2

\* no wrapped function is running
NoRun ==
    [kind |-> "none", max_retries |-> 0, plan |-> << >>, attempt |-> 0,
     invocations |-> 0, connects |-> 0, state |-> "idle", result |-> "none",
     last_outcome |-> "none"]

RetryInit == r_run = NoRun

\* a call of the wrapper of a function that behaves as plan says, one entry
\* per invocation
FunctionRuns ==
    {[NoRun EXCEPT !.kind = "function", !.max_retries = n, !.plan = plan,
                   !.state = "loop"] :
        n \in 0..MaxRetries, plan \in [1..(MaxRetries + 1) -> CallOutcomes]}

\* a call of the wrapped scrape_single on a link whose connection attempts
\* go as plan says
ScrapeRuns ==
    {[NoRun EXCEPT !.kind = "scrape_single", !.max_retries = SCRAPE_MAX_RETRIES,
                   !.plan = plan, !.state = "loop"] :
        plan \in [1..(SESSION_MAX_RETRIES + 2) -> ConnectOutcomes]}

\* the step of the wrapper after an invocation with the given outcome, in
\* iteration attempt of for attempt in range(max_retries)
AfterInvocation_Mutant(run, outcome) == IF outcome = "returns" THEN [run EXCEPT !.state = "returned", !.result = "value"] ELSE [run EXCEPT !.attempt = @ + 1]
AfterInvocation(run, outcome) ==
    IF outcome = "returns"
      THEN [run EXCEPT !.state = "returned", !.result = "value"]
    ELSE IF outcome = "raises_other"
      THEN [run EXCEPT !.state = "raised", !.result = "other"]
    ELSE IF run.attempt < run.max_retries - 1
      THEN [run EXCEPT !.attempt = @ + 1]
      ELSE [run EXCEPT !.state = "raised", !.result = "listed"]

\* wrapper: an iteration of the loop invokes func(*args, **kwargs)
RetryInvoke ==
    /\ r_run.kind = "function"
    /\ r_run.state = "loop"
    /\ r_run.attempt < r_run.max_retries
    /\ LET outcome == r_run.plan[r_run.invocations + 1]
           invoked == [r_run EXCEPT !.invocations = @ + 1,
                                    !.last_outcome = outcome]
       IN r_run' = AfterInvocation(invoked, outcome)
    /\ UNCHANGED <<poolVars, workerVars, dispatchVars, scrapeVars, threadVars,
                   s_kwargs, fetch_call, probeVars, poolAuxVars, ctlVars,
                   mergeVars, extractVars, statVars, globalVars>>

\* wrapper: range(max_retries) is empty; last_exception is None and the
\* wrapper falls off its end
RetryLoopEmpty ==
    /\ r_run.kind = "function"
    /\ r_run.state = "loop"
    /\ r_run.max_retries = 0
    /\ r_run' = [r_run EXCEPT !.state = "returned", !.result = "None"]
    /\ UNCHANGED <<poolVars, workerVars, dispatchVars, scrapeVars, threadVars,
                   s_kwargs, fetch_call, probeVars, poolAuxVars, ctlVars,
                   mergeVars, extractVars, statVars, globalVars>>

\* wrapper around scrape_single: the body runs up to session.get
ScrapeInvoke ==
    /\ r_run.kind = "scrape_single"
    /\ r_run.state = "loop"
    /\ r_run.attempt < r_run.max_retries
    /\ r_run' = [r_run EXCEPT !.invocations = @ + 1, !.state = "get"]
    /\ UNCHANGED <<poolVars, workerVars, dispatchVars, scrapeVars, threadVars,
                   s_kwargs, fetch_call, probeVars, poolAuxVars, ctlVars,
                   mergeVars, extractVars, statVars, globalVars>>

\* session.get on the session of create_session_with_retry(max_retries=2):
\* the adapter's Retry(total=max_retries) makes the connection again after a
\* connection error until the retries are used up, then ConnectionError is
\* raised into scrape_single, whose handler returns the title; the wrapper
\* returns what scrape_single returned
ScrapeConnect ==
    /\ r_run.kind = "scrape_single"
    /\ r_run.state = "get"
    /\ LET outcome == r_run.plan[r_run.connects + 1]
           tried == [r_run EXCEPT !.connects = @ + 1, !.last_outcome = outcome]
       IN r_run' =
            IF outcome = "ok200"
              THEN [tried EXCEPT !.state = "returned", !.result = "page"]
            ELSE IF tried.connects <= SESSION_MAX_RETRIES
              THEN tried
              ELSE [tried EXCEPT !.state = "returned", !.result = "title"]
    /\ UNCHANGED <<poolVars, workerVars, dispatchVars, scrapeVars, threadVars,
                   s_kwargs, fetch_call, probeVars, poolAuxVars, ctlVars,
                   mergeVars, extractVars, statVars, globalVars>>

\* ------------------------------------- concurrent record_success / failure

\* the endpoint the outcomes are reported for
StatPort == TOR_INSTANCE_START_PORT

StatInit ==
    /\ k_pc = [t \in Threads |-> "idle"]
    /\ k_reg = [t \in Threads |-> [kind |-> "none", loaded |-> 0]]
    /\ k_kinds = << >>

\* n get_proxy_for_request() calls in a row from cursor idx
RECURSIVE SelectTimes(_, _, _)
SelectTimes(n, idx, stats) ==
    IF n = 0 THEN [index |-> idx, stats |-> stats]
    ELSE LET sel == GetProxy(NoPort, idx, stats)
         IN SelectTimes(n - 1, sel.index, sel.stats)

\* the pool after MaxStatCalls requests were sent through every endpoint
StatsBase == SelectTimes(instance_count * MaxStatCalls, 0, << >>)

\* thread t enters record_success or record_failure for StatPort: the port
\* has an entry (lines 107, 118) and the += 1 loads the counter
StatLoad(t, kind) ==
    /\ k_pc[t] = "idle"
    /\ Len(k_kinds) < MaxStatCalls
    /\ StatPort \in DOMAIN port_stats
    /\ k_kinds' = Append(k_kinds, kind)
    /\ k_reg' = [k_reg EXCEPT ![t] =
                   [kind |-> kind,
                    loaded |-> IF kind = "success"
                                 THEN port_stats[StatPort].successes
                                 ELSE port_stats[StatPort].failures]]
    /\ k_pc' = [k_pc EXCEPT ![t] = "store"]
    /\ UNCHANGED <<poolVars, workerVars, dispatchVars, scrapeVars, threadVars,
                   s_kwargs, fetch_call, probeVars, poolAuxVars, ctlVars,
                   mergeVars, extractVars, retryVars, globalVars>>

\* ... and stores the sum
StatStore(t) ==
    /\ k_pc[t] = "store"
    /\ port_stats' =
          IF k_reg[t].kind = "success"
            THEN [port_stats EXCEPT ![StatPort].successes = k_reg[t].loaded + 1]
            ELSE [port_stats EXCEPT ![StatPort].failures = k_reg[t].loaded + 1]
    /\ k_pc' = [k_pc EXCEPT ![t] = "status"]
    /\ UNCHANGED <<enabled, instance_count, ports, current_index, port_lock,
                   health_cache, workerVars, dispatchVars, scrapeVars,
                   threadVars, s_kwargs, fetch_call, probeVars, poolAuxVars,
                   ctlVars, mergeVars, extractVars, retryVars, k_reg, k_kinds,
                   globalVars>>

\* the rest of the method: record_success sets healthy (line 109);
\* record_failure reads requests and failures again and sets unhealthy when
\* the rate is above 0.5 (lines 120-125)
StatStatus(t) ==
    /\ k_pc[t] = "status"
    /\ port_stats' =
          IF k_reg[t].kind = "success"
            THEN [port_stats EXCEPT ![StatPort].health_status = "healthy"]
            ELSE LET total == port_stats[StatPort].requests
                 IN IF total > 0 /\ HighFailureRate(port_stats[StatPort].failures, total)
                      THEN [port_stats EXCEPT ![StatPort].health_status = "unhealthy"]
                      ELSE port_stats
    /\ k_pc' = [k_pc EXCEPT ![t] = "idle"]
    /\ UNCHANGED <<enabled, instance_count, ports, current_index, port_lock,
                   health_cache, workerVars, dispatchVars, scrapeVars,
                   threadVars, s_kwargs, fetch_call, probeVars, poolAuxVars,
                   ctlVars, mergeVars, extractVars, retryVars, k_reg, k_kinds,
                   globalVars>>

\* ------------------------------------------- get_tor_pool / reset_tor_pool

\* _tor_pool = None (line 238)
None == 0

GlobalInit ==
    /\ g_tor_pool = None
    /\ g_built = 0
    /\ g_call = [t \in Threads |-> [pc |-> "idle", fresh |-> FALSE]]
    /\ g_returned = {}

GlobalRest == <<poolVars, workerVars, dispatchVars, scrapeVars, threadVars, s_kwargs, fetch_call, probeVars, poolAuxVars, ctlVars, mergeVars, extractVars, retryVars, statVars>>

\* thread t enters get_tor_pool and tests `_tor_pool is None` (line 249)
GetPoolCheck(t) ==
    /\ g_call[t].pc = "idle"
    /\ g_built < MaxPoolObjects
    /\ g_call' = [g_call EXCEPT ![t] =
                    [pc |-> IF g_tor_pool = None THEN "L250" ELSE "L255",
                     fresh |-> TRUE]]
    /\ UNCHANGED <<g_tor_pool, g_built, g_returned, GlobalRest>>

\* _tor_pool = TorPool(...) (lines 250-254): a new object is stored
GetPoolConstruct(t) ==
    /\ g_call[t].pc = "L250"
    /\ g_built' = g_built + 1
    /\ g_tor_pool' = g_built + 1
    /\ g_call' = [g_call EXCEPT ![t].pc = "L255"]
    /\ UNCHANGED <<g_returned, GlobalRest>>

\* return _tor_pool (line 255); results of calls that began before the last
\* reset are not collected
GetPoolReturn(t) ==
    /\ g_call[t].pc = "L255"
    /\ g_returned' = IF g_call[t].fresh THEN g_returned \cup {g_tor_pool}
                      ELSE g_returned
    /\ g_call' = [g_call EXCEPT ![t] = [pc |-> "idle", fresh |-> FALSE]]
    /\ UNCHANGED <<g_tor_pool, g_built, GlobalRest>>

\* reset_tor_pool (lines 259-264)
ResetTorPool ==
    /\ g_tor_pool # None
    /\ g_tor_pool' = None
    /\ g_returned' = {}
    /\ g_call' = [t \in Threads |-> [g_call[t] EXCEPT !.fresh = FALSE]]
    /\ UNCHANGED <<g_built, GlobalRest>>

MoreInit ==
    /\ ExtractInit
    /\ RetryInit
    /\ StatInit
    /\ GlobalInit

\* ----------------------------------------- endpoint health checks over time

\* self.health_cache_timeout in seconds
HEALTH_CACHE_TIMEOUT == 60

\* time.time() - cached_time < self.health_cache_timeout for an entry written
\* at stamp, read at t
PortCacheFresh_Mutant(stamp, t) == t - stamp <= HEALTH_CACHE_TIMEOUT
PortCacheFresh(stamp, t) == t - stamp < HEALTH_CACHE_TIMEOUT

\* the entries of health_cache that health_check_port answers from
FreshPortCache ==
    LET fresh == {p \in DOMAIN health_cache : PortCacheFresh(health_stamp[p], now)}
    IN [p \in fresh |-> health_cache[p]]

\* health_cache after a call that found the entries view and left the
\* entries after: the entries written replace the old ones
PortRecached(after) ==
    [p \in DOMAIN health_cache \cup DOMAIN after |->
        IF p \in DOMAIN after THEN after[p] ELSE health_cache[p]]

\* the for loop of health_check_all from position i on; acc carries the
\* results dict and the pool state the probes have written so far
RECURSIVE HealthCheckAllLoop(_, _, _)
HealthCheckAllLoop(i, acc, outcomes) ==
    IF i > Len(ports) THEN acc
    ELSE LET port == ports[i]
             r == HealthCheckPort(acc.stats, acc.cache, port, outcomes[port])
         IN HealthCheckAllLoop(i + 1,
              [results |-> [q \in DOMAIN acc.results \cup {port} |->
                              IF q = port THEN r.result ELSE acc.results[q]],
               stats |-> r.stats, cache |-> r.cache],
              outcomes)

NoHealthCall ==
    [n |-> 0, kind |-> "none", at |-> 0, results |-> << >>, cached |-> {},
     prior |-> << >>, prior_stamp |-> << >>, sent |-> {}, after |-> << >>,
     stamp_after |-> << >>]

\* what a health check that found the entries view and left the entries
\* after leaves in the pool and in health_call: the results it returned,
\* the entries and their times before and after, the ports a request was
\* sent through
HealthChecked(kind, view, verdicts, stats, after) ==
    LET sent == DOMAIN after \ DOMAIN view
        stamps == [p \in DOMAIN health_stamp |->
                     IF p \in sent THEN now ELSE health_stamp[p]]
    IN /\ port_stats' = stats
       /\ health_cache' = PortRecached(after)
       /\ health_stamp' = stamps
       /\ port_checks' = [p \in DOMAIN port_checks |->
                            IF p \in sent THEN port_checks[p] + 1
                            ELSE port_checks[p]]
       /\ health_call' =
             [n |-> health_call.n + 1, kind |-> kind, at |-> now,
              results |-> verdicts,
              cached |-> DOMAIN health_cache,
              prior |-> health_cache,
              prior_stamp |-> health_stamp,
              sent |-> sent,
              after |-> PortRecached(after),
              stamp_after |-> stamps]

\* a caller runs health_check_all() to the end at time now
HealthCheckAll(outcomes) ==
    /\ health_call.n < MaxPoolChecks
    /\ LET view == FreshPortCache
           r == HealthCheckAllLoop(1, [results |-> << >>, stats |-> port_stats,
                                       cache |-> view], outcomes)
       IN HealthChecked("all", view, r.results, r.stats, r.cache)
    /\ UNCHANGED <<enabled, instance_count, ports, current_index, port_lock,
                   workerVars, dispatchVars, scrapeVars, threadVars, s_kwargs,
                   fetch_call, probeVars, select_call, record_call, ctlVars,
                   mergeVars, moreVars>>

\* a caller runs health_check_port(port) to the end at time now
HealthCheckPortAt(port, outcome) ==
    /\ health_call.n < MaxPoolChecks
    /\ LET view == FreshPortCache
           r == HealthCheckPort(port_stats, view, port, outcome)
       IN HealthChecked("port", view, (port :> r.result), r.stats, r.cache)
    /\ UNCHANGED <<enabled, instance_count, ports, current_index, port_lock,
                   workerVars, dispatchVars, scrapeVars, threadVars, s_kwargs,
                   fetch_call, probeVars, select_call, record_call, ctlVars,
                   mergeVars, moreVars>>

\* time passes between calls, half the pool's cache window at a time
PoolTick ==
    /\ now < MaxPoolTicks * (HEALTH_CACHE_TIMEOUT \div 2)
    /\ now' = now + HEALTH_CACHE_TIMEOUT \div 2
    /\ UNCHANGED <<poolVars, workerVars, dispatchVars, scrapeVars, threadVars,
                   s_kwargs, fetch_call, engine_stamp, net_checks, probe_call,
                   ordered_call, dispatch_calls, auxVars>>

\* a pool just constructed: no entry has a time, no request was sent
PoolAuxInit ==
    /\ health_stamp = [p \in PortSet |-> 0]
    /\ port_checks = [p \in PortSet |-> 0]
    /\ health_call = NoHealthCall
    /\ select_call = NoSelectCall
    /\ record_call = NoRecordCall

AuxInit ==
    /\ PoolAuxInit
    /\ ControllerInit
    /\ MergeInit
    /\ MoreInit

ExtInit ==
    /\ ThreadsInit
    /\ s_kwargs = NoKeywords
    /\ fetch_call = NoFetchCall
    /\ ProbeInit
    /\ AuxInit

\* thread t enters scrape_single for an onion link (lines 92-114): the proxy
\* comes from the pool
WorkerBegin(t) ==
    /\ w_pc[t] = "idle"
    /\ scrape_calls < MaxRotateCalls
    /\ scrape_calls' = scrape_calls + 1
    /\ LET sel == GetProxy(NoPort, current_index, port_stats)
       IN /\ current_index' = sel.index
          /\ port_stats' = sel.stats
          /\ w_reg' = [w_reg EXCEPT ![t] = [read |-> 0, port |-> sel.port]]
    /\ w_pc' = [w_pc EXCEPT ![t] = IF w_rotate THEN "L116" ELSE "L137"]
    /\ UNCHANGED <<enabled, instance_count, ports, port_lock, health_cache,
                   workerVars, dispatchVars, rotate_on_error, request_counter,
                   tor_controller, single_call, multiVars, counter_lock,
                   w_rotate, w_interval, w_failed, s_kwargs, fetch_call, probeVars, auxVars>>

\* with counter_lock: (line 116)
WorkerLock(t) ==
    /\ w_pc[t] = "L116"
    /\ CounterLockFree(t)
    /\ counter_lock' = t
    /\ w_pc' = [w_pc EXCEPT ![t] = "L117"]
    /\ UNCHANGED <<poolVars, workerVars, dispatchVars, scrapeVars, w_reg,
                   w_rotate, w_interval, w_failed, s_kwargs, fetch_call, probeVars, auxVars>>

\* request_counter += 1 (line 117) loads the global ...
WorkerLoad(t) ==
    /\ w_pc[t] = "L117"
    /\ w_reg' = [w_reg EXCEPT ![t].read = request_counter]
    /\ w_pc' = [w_pc EXCEPT ![t] = "L117s"]
    /\ UNCHANGED <<poolVars, workerVars, dispatchVars, scrapeVars,
                   counter_lock, w_rotate, w_interval, w_failed, s_kwargs, fetch_call, probeVars, auxVars>>

\* ... and stores the sum
WorkerStore(t) ==
    /\ w_pc[t] = "L117s"
    /\ request_counter' = w_reg[t].read + 1
    /\ w_pc' = [w_pc EXCEPT ![t] = "L118"]
    /\ UNCHANGED <<poolVars, workerVars, dispatchVars, rotate_on_error,
                   tor_controller, scrape_calls, single_call, multiVars,
                   counter_lock, w_reg, w_rotate, w_interval, w_failed, s_kwargs, fetch_call, probeVars, auxVars>>

\* should_rotate = (request_counter % rotation_interval == 0) (line 118) and
\* the end of the with block
WorkerTest(t) ==
    /\ w_pc[t] = "L118"
    /\ w_pc' = [w_pc EXCEPT ![t] =
                  IF request_counter % RotationInterval(w_interval) = 0
                    THEN "L121" ELSE "L137"]
    /\ counter_lock' = IF counter_lock = t THEN NoThread ELSE counter_lock
    /\ UNCHANGED <<poolVars, workerVars, dispatchVars, scrapeVars, w_reg,
                   w_rotate, w_interval, w_failed, s_kwargs, fetch_call, probeVars, auxVars>>

\* thread t, before the request (line 121) or in a handler (lines 170, 180),
\* fetches the controller and enters rotate_circuit: the NEWNYM signal is
\* sent and counted; a signal that fails returns at once
WorkerRotate(t, connect_ok, signal_ok) ==
    /\ w_pc[t] \in {"L121", "L170"}
    /\ tor_controller' = RotateIfConnected(tor_controller, connect_ok, signal_ok)
    /\ w_pc' = [w_pc EXCEPT ![t] =
                  IF tor_controller'.state = "connected" /\ signal_ok
                    THEN (IF w_pc[t] = "L121" THEN "settle" ELSE "settle_err")
                    ELSE (IF w_pc[t] = "L121" THEN "L137" ELSE "idle")]
    /\ UNCHANGED <<poolVars, workerVars, dispatchVars, rotate_on_error,
                   request_counter, scrape_calls, single_call, multiVars,
                   counter_lock, w_reg, w_rotate, w_interval, w_failed, s_kwargs, fetch_call, probeVars, auxVars>>

\* time.sleep(2) of rotate_circuit ends and rotate_circuit returns
WorkerSettled(t) ==
    /\ w_pc[t] \in {"settle", "settle_err"}
    /\ w_pc' = [w_pc EXCEPT ![t] = IF w_pc[t] = "settle" THEN "L137" ELSE "idle"]
    /\ UNCHANGED <<poolVars, workerVars, dispatchVars, scrapeVars,
                   counter_lock, w_reg, w_rotate, w_interval, w_failed, s_kwargs, fetch_call, probeVars, auxVars>>

\* the request of thread t ends (lines 137-201): the outcome is reported to
\* the pool, and scrape_single returns unless the handler rotates
WorkerFetch(t, outcome) ==
    /\ w_pc[t] = "L137"
    /\ LET recorded == RecordedAs(w_reg[t].port, rotate_on_error, outcome)
       IN port_stats' =
            IF recorded = "success" THEN RecordSuccess(port_stats, w_reg[t].port)
            ELSE IF recorded = "failure" THEN RecordFailure(port_stats, w_reg[t].port)
            ELSE port_stats
    /\ w_failed' = (w_failed \/ outcome # "ok200")
    /\ w_pc' = [w_pc EXCEPT ![t] =
                  IF RotatesOnError(w_reg[t].port, w_rotate, rotate_on_error, outcome)
                    THEN "L170" ELSE "idle"]
    /\ UNCHANGED <<enabled, instance_count, ports, current_index, port_lock,
                   health_cache, workerVars, dispatchVars, scrapeVars,
                   counter_lock, w_reg, w_rotate, w_interval, s_kwargs, fetch_call, probeVars, auxVars>>

\* thread t is inside rotate_circuit, between the signal and the return
Rotating(t) == w_pc[t] \in {"settle", "settle_err"}

\* ------------------------------------------------------ pool specification

PreferChoices == {NoPort} \cup
    {TOR_INSTANCE_START_PORT + i : i \in 0..(MaxInstances - 1)}

NoHealthyCall ==
    [called |-> FALSE, ret |-> << >>, status |-> << >>, outcomes |-> << >>]

\* workers and call records before any call
WorkersInit ==
    /\ pc = [t \in Threads |-> "idle"]
    /\ port_used = [t \in Threads |-> NoPort]
    /\ calls = 0
    /\ returned = << >>
    /\ health_ops = 0
    /\ healthy_call = NoHealthyCall

\* no mock engines installed
NoBehaviours == [k \in TaskIds |-> {}]

Init ==
    /\ \E en \in BOOLEAN, count \in 1..MaxInstances : PoolInit(en, count)
    /\ WorkersInit
    /\ DispatchInit
    /\ engine_behaviour = NoBehaviours
    /\ ScrapeInit
    /\ ExtInit
    /\ rotate_on_error = TRUE

InitHealth ==
    /\ \E en \in BOOLEAN, count \in 1..MaxHealthInstances : PoolInit(en, count)
    /\ WorkersInit
    /\ DispatchInit
    /\ engine_behaviour = NoBehaviours
    /\ ScrapeInit
    /\ ExtInit
    /\ rotate_on_error = TRUE

\* health_check_all and health_check_port called one after the other as
\* time passes
InitPoolClock ==
    /\ \E en \in BOOLEAN, count \in 1..MaxHealthInstances : PoolInit(en, count)
    /\ WorkersInit
    /\ DispatchInit
    /\ engine_behaviour = NoBehaviours
    /\ ScrapeInit
    /\ ExtInit
    /\ rotate_on_error = TRUE

NextPoolClock ==
    \/ \E outcomes \in [PortSet -> ProbeOutcomes] : HealthCheckAll(outcomes)
    \/ \E p \in PortSet, outcome \in ProbeOutcomes : HealthCheckPortAt(p, outcome)
    \/ PoolTick

SpecPoolClock == InitPoolClock /\ [][NextPoolClock]_vars

\* one caller at a time: whole requests, which move the cursor and the
\* health statuses, and selections
InitSelect ==
    /\ \E en \in BOOLEAN, count \in 1..MaxInstances : PoolInit(en, count)
    /\ WorkersInit
    /\ DispatchInit
    /\ engine_behaviour = NoBehaviours
    /\ ScrapeInit
    /\ ExtInit
    /\ rotate_on_error = TRUE

NextSelect ==
    \/ \E prefer \in PreferChoices, ok \in BOOLEAN : Request(prefer, ok)
    \/ \E prefer \in PreferChoices : SelectEndpoint(prefer)

SpecSelect == InitSelect /\ [][NextSelect]_vars

\* one caller at a time: whole requests and record_success calls
NextRecord ==
    \/ \E prefer \in PreferChoices, ok \in BOOLEAN : Request(prefer, ok)
    \/ \E port \in PreferChoices \ {NoPort} : RecordSuccessCall(port)

SpecRecord == InitSelect /\ [][NextRecord]_vars

\* a TorController object used by one caller
InitController ==
    /\ PoolInit(FALSE, MaxDispatchInstances)
    /\ WorkersInit
    /\ DispatchInit
    /\ engine_behaviour = NoBehaviours
    /\ ScrapeInit
    /\ ExtInit
    /\ rotate_on_error = TRUE

NextController == ControllerStep(1)

SpecController == InitController /\ [][NextController]_vars

\* the object shared by the threads of the scraper
NextControllerThreads == \E t \in Threads : ControllerStep(t)

SpecControllerThreads == InitController /\ [][NextControllerThreads]_vars

\* workers selecting endpoints concurrently and reporting request outcomes
Next ==
    \/ \E t \in Threads, prefer \in PreferChoices : GetProxyForRequest(t, prefer)
    \/ \E t \in Threads : AcquireLock(t)
    \/ \E t \in Threads : ReadPort(t)
    \/ \E t \in Threads : AdvanceIndex(t)
    \/ \E t \in Threads : IncRequests(t)
    \/ \E t \in Threads : ReleaseLock(t)
    \/ \E t \in Threads : RequestSucceeds(t)
    \/ \E t \in Threads : RequestFails(t)

Spec == Init /\ [][Next]_vars

\* one caller at a time: requests, health checks and cache expiry
NextHealth ==
    \/ \E prefer \in PreferChoices, ok \in BOOLEAN : Request(prefer, ok)
    \/ GetHealthyPorts
    \/ \E p \in PortSet : HealthCheckPortCall(p)
    \/ \E p \in PortSet : ExpireCache(p)

SpecHealth == InitHealth /\ [][NextHealth]_vars

\* merge_iocs on every triple of indicator dictionaries
InitMerge ==
    /\ PoolInit(FALSE, MaxDispatchInstances)
    /\ WorkersInit
    /\ DispatchInit
    /\ engine_behaviour = NoBehaviours
    /\ ScrapeInit
    /\ rotate_on_error = TRUE
    /\ ThreadsInit
    /\ s_kwargs = NoKeywords
    /\ fetch_call = NoFetchCall
    /\ ProbeInit
    /\ PoolAuxInit
    /\ ControllerInit
    /\ m_dicts \in [1..3 -> IocDicts]
    /\ m_out = NoMerge
    /\ MoreInit

NextMerge == MergeCalls

SpecMerge == InitMerge /\ [][NextMerge]_vars

\* extract_iocs called again and again on one text
InitExtract ==
    /\ PoolInit(FALSE, MaxDispatchInstances)
    /\ WorkersInit
    /\ DispatchInit
    /\ engine_behaviour = NoBehaviours
    /\ ScrapeInit
    /\ rotate_on_error = TRUE
    /\ ThreadsInit
    /\ s_kwargs = NoKeywords
    /\ fetch_call = NoFetchCall
    /\ ProbeInit
    /\ PoolAuxInit
    /\ ControllerInit
    /\ MergeInit
    /\ x_text \in Texts
    /\ x_calls = << >>
    /\ RetryInit
    /\ StatInit
    /\ GlobalInit

NextExtract == \E ioc_types \in TypeLists : ExtractCall(ioc_types)

SpecExtract == InitExtract /\ [][NextExtract]_vars

\* runs of wrapped functions, and of the wrapped scrape_single
InitRetry ==
    /\ PoolInit(FALSE, MaxDispatchInstances)
    /\ WorkersInit
    /\ DispatchInit
    /\ engine_behaviour = NoBehaviours
    /\ ScrapeInit
    /\ rotate_on_error = TRUE
    /\ ThreadsInit
    /\ s_kwargs = NoKeywords
    /\ fetch_call = NoFetchCall
    /\ ProbeInit
    /\ PoolAuxInit
    /\ ControllerInit
    /\ MergeInit
    /\ ExtractInit
    /\ r_run \in FunctionRuns \cup ScrapeRuns
    /\ StatInit
    /\ GlobalInit

NextRetry ==
    \/ RetryInvoke
    \/ RetryLoopEmpty
    \/ ScrapeInvoke
    \/ ScrapeConnect

SpecRetry == InitRetry /\ [][NextRetry]_vars

\* threads reporting outcomes for one endpoint of a pool that has served
\* requests on every endpoint
InitStats ==
    /\ enabled = TRUE
    /\ instance_count = MaxDispatchInstances
    /\ ports = PortRange(TOR_INSTANCE_START_PORT, MaxDispatchInstances)
    /\ current_index = StatsBase.index
    /\ port_lock = NoThread
    /\ port_stats = StatsBase.stats
    /\ health_cache = << >>
    /\ WorkersInit
    /\ DispatchInit
    /\ engine_behaviour = NoBehaviours
    /\ ScrapeInit
    /\ ExtInit
    /\ rotate_on_error = TRUE

NextStats ==
    \E t \in Threads :
        \/ \E kind \in {"success", "failure"} : StatLoad(t, kind)
        \/ StatStore(t)
        \/ StatStatus(t)

SpecStats == InitStats /\ [][NextStats]_vars

\* threads obtaining the global pool
NextGlobal ==
    \/ \E t \in Threads :
          \/ GetPoolCheck(t)
          \/ GetPoolConstruct(t)
          \/ GetPoolReturn(t)
    \/ ResetTorPool

SpecGlobal == Init /\ [][NextGlobal]_vars

\* ------------------------------------------------ dispatch specifications

\* one get_search_results call on a fresh process, every task free to return
\* any list, to fail or to raise
InitDispatch ==
    /\ \E en \in BOOLEAN : PoolInit(en, MaxDispatchInstances)
    /\ WorkersInit
    /\ DispatchInit
    /\ engine_behaviour = [k \in TaskIds |-> Behaviours]
    /\ ScrapeInit
    /\ ExtInit
    /\ rotate_on_error = TRUE

\* probe outcomes met by the health checks of a dispatch: every engine alive,
\* or some engines not answering
DispatchProbes ==
    {[e \in Engines |-> IF e \in dead THEN "exception" ELSE "alive"] :
        dead \in {{}, {"A"}}}

NextDispatch ==
    \/ \E workers \in 1..MaxWorkers, include_telegram \in BOOLEAN,
          skip \in BOOLEAN, verify \in ProbeOutcomes,
          outcomes \in DispatchProbes :
            Dispatch(workers, include_telegram, skip, verify, outcomes)
    \/ \E k \in TaskIds : TaskStart(k)
    \/ \E k \in TaskIds, b \in Behaviours : TaskFinish(k, b)
    \/ \E order \in UNION {Orders(S) : S \in SUBSET TaskIds} : AsCompleted(order)
    \/ Consume
    \/ Return
    \/ Propagate

SpecDispatch == InitDispatch /\ [][NextDispatch]_vars

\* three mock engines: A and B each return link X, C returns link Y
InitScenario ==
    /\ \E en \in BOOLEAN : PoolInit(en, MaxDispatchInstances)
    /\ WorkersInit
    /\ DispatchInit
    /\ engine_behaviour =
         [k \in TaskIds |->
            IF k \in {"A", "B"} THEN {[kind |-> "ok", links |-> <<"X">>]}
            ELSE IF k = "C" THEN {[kind |-> "ok", links |-> <<"Y">>]}
            ELSE {}]
    /\ ScrapeInit
    /\ ExtInit
    /\ rotate_on_error = TRUE

SpecScenario == InitScenario /\ [][NextDispatch]_vars


\* -------------------------------------------------- scrape specifications

\* direct scrape_single calls, one after the other
InitScrapeSingle ==
    /\ \E en \in BOOLEAN : PoolInit(en, MaxDispatchInstances)
    /\ WorkersInit
    /\ DispatchInit
    /\ engine_behaviour = NoBehaviours
    /\ ScrapeInit
    /\ ExtInit
    /\ rotate_on_error \in BOOLEAN

\* the calls tried: a page matters to a 200 only, the control port to a call
\* that may rotate
FetchResults ==
    {<<"ok200", page>> : page \in Pages}
        \cup {<<o, << >> >> : o \in FetchOutcomes \ {"ok200"}}
ControlOutcomes == {<<FALSE, FALSE>>, <<TRUE, FALSE>>, <<TRUE, TRUE>>}
RotateChoices ==
    {<<FALSE, 0, <<FALSE, FALSE>> >>}
        \cup {<<TRUE, n, c>> : n \in {0, 1}, c \in ControlOutcomes}

NextScrapeSingle ==
    \E cand \in Candidates, r \in RotateChoices, f \in FetchResults,
       session_ok \in BOOLEAN :
         ScrapeSingleCall(cand, r[1], r[2], f[1], f[2], r[3][1], r[3][2],
                          session_ok)

SpecScrapeSingle == InitScrapeSingle /\ [][NextScrapeSingle]_vars

\* direct scrape_single calls on links of every kind: an onion address, a
\* clear-web address, and a clear-web address with ".onion" in its path
BypassCandidates ==
    {[link |-> l, title |-> t] :
        l \in OnionLinks \cup ClearLinks \cup PathOnionLinks,
        t \in {Text("t", 1)}}

\* rotate off, or on with a rotation due at every request; every fetch
\* outcome, the page of a 200 empty
BypassRotateChoices ==
    {<<FALSE, 0, <<FALSE, FALSE>> >>} \cup {<<TRUE, 1, c>> : c \in ControlOutcomes}
BypassFetchResults == {<<o, << >> >> : o \in FetchOutcomes}

NextBypass ==
    \E cand \in BypassCandidates, r \in BypassRotateChoices,
       f \in BypassFetchResults, session_ok \in BOOLEAN :
         ScrapeSingleCall(cand, r[1], r[2], f[1], f[2], r[3][1], r[3][2],
                          session_ok)

SpecBypass == InitScrapeSingle /\ [][NextBypass]_vars

\* direct fetch_search_results calls, one after the other
InitFetch ==
    /\ \E en \in BOOLEAN : PoolInit(en, MaxDispatchInstances)
    /\ WorkersInit
    /\ DispatchInit
    /\ engine_behaviour = NoBehaviours
    /\ ScrapeInit
    /\ rotate_on_error = TRUE
    /\ ExtInit

NextFetch ==
    \E outcome \in FetchOutcomes, links \in ResultLists : FetchCall(outcome, links)

SpecFetch == InitFetch /\ [][NextFetch]_vars

\* threads calling scrape_single(url_data, rotate, rotate_interval) on onion
\* links, the controller connected, the pool as configured by default
\* (TOR_MULTI_INSTANCE unset)
\* check_search_engine_health, get_enabled_search_engines and whole
\* get_search_results calls made one after the other as time passes, on
\* the pool of the default configuration
InitProbe ==
    /\ PoolInit(FALSE, MaxDispatchInstances)
    /\ WorkersInit
    /\ DispatchInit
    /\ engine_behaviour = NoBehaviours
    /\ ScrapeInit
    /\ rotate_on_error = TRUE
    /\ ExtInit

\* every task of a run returns a list, or every task fails
RunFetches == {[e \in Engines |-> o] : o \in {"ok200", "timeout"}}

\* the engines probed directly: an enabled one and the one switched off
ProbedEngines == {"A", "D"}

NextProbe ==
    \/ \E e \in ProbedEngines, q \in TestQueries \cup {NoQuery} : ProbeEngine(e, q)
    \/ \E skip \in BOOLEAN, outcomes \in DispatchProbes :
          EnabledOrdered(skip, outcomes)
    \/ \E skip \in BOOLEAN, outcomes \in DispatchProbes, fetches \in RunFetches :
          SearchRun(skip, outcomes, fetches)
    \/ Tick

SpecProbe == InitProbe /\ [][NextProbe]_vars

InitRotate ==
    /\ PoolInit(FALSE, MaxDispatchInstances)
    /\ WorkersInit
    /\ DispatchInit
    /\ engine_behaviour = NoBehaviours
    /\ ScrapeInitWith(ConnectedController)
    /\ rotate_on_error \in BOOLEAN
    /\ \E rotate \in BOOLEAN, rotate_interval \in 1..MaxInterval :
          ThreadsInitWith(rotate, rotate_interval)
    /\ s_kwargs = NoKeywords
    /\ fetch_call = NoFetchCall
    /\ ProbeInit
    /\ AuxInit

NextRotate ==
    \E t \in Threads :
        \/ WorkerBegin(t)
        \/ WorkerLock(t)
        \/ WorkerLoad(t)
        \/ WorkerStore(t)
        \/ WorkerTest(t)
        \/ \E connect_ok \in BOOLEAN, signal_ok \in BOOLEAN :
              WorkerRotate(t, connect_ok, signal_ok)
        \/ WorkerSettled(t)
        \/ \E outcome \in FetchOutcomes : WorkerFetch(t, outcome)

SpecRotate == InitRotate /\ [][NextRotate]_vars

\* one scrape_multiple call
InitScrape ==
    /\ PoolInit(TRUE, MaxDispatchInstances)
    /\ WorkersInit
    /\ DispatchInit
    /\ engine_behaviour = NoBehaviours
    /\ ScrapeInit
    /\ ExtInit
    /\ rotate_on_error = TRUE

NextScrape ==
    \/ /\ s_phase = "idle"
       /\ \E cands \in CandidateLists, workers \in {1, MaxWorkers},
             max_chars \in 1..MaxChars : ScrapeMultiple(cands, workers, max_chars)
    \/ /\ s_phase = "idle"
       /\ \E cands \in CandidateLists, workers \in {1, MaxWorkers},
             rotate \in BOOLEAN, rotate_interval \in 0..MaxInterval :
               ScrapeMultipleRotating(cands, workers, rotate, rotate_interval)
    \/ \E i \in DOMAIN s_cands, session_ok \in BOOLEAN : ScrapeStart(i, session_ok)
    \/ \E i \in DOMAIN s_cands, f \in FetchResults : ScrapeFinish(i, f[1], f[2])
    \/ /\ s_phase = "submitted"
       /\ \E order \in UNION {Orders(S) : S \in SUBSET DOMAIN s_cands} :
             ScrapeAsCompleted(order)
    \/ ScrapeConsume
    \/ ScrapeReturn

SpecScrape == InitScrape /\ [][NextScrape]_vars

\* scrape_multiple on candidates as get_telegram_results and the engines
\* produce them: title and link, and a content text that is filled in or
\* absent
Contents == {<< >>, Text("m", 2)}
ContentCandidates ==
    {[link |-> l, title |-> Text("t", 1), content |-> c] :
        l \in OnionLinks \cup ClearLinks, c \in Contents}
ContentCandidateLists ==
    {cs \in UNION {[1..n -> ContentCandidates] : n \in 0..MaxCandidates} :
        \A i, j \in DOMAIN cs : cs[i].link = cs[j].link => i = j}

NextContent ==
    \/ /\ s_phase = "idle"
       /\ \E cands \in ContentCandidateLists, workers \in {1, MaxWorkers},
             max_chars \in 1..MaxChars : ScrapeMultiple(cands, workers, max_chars)
    \/ \E i \in DOMAIN s_cands, session_ok \in BOOLEAN : ScrapeStart(i, session_ok)
    \/ \E i \in DOMAIN s_cands, f \in FetchResults : ScrapeFinish(i, f[1], f[2])
    \/ /\ s_phase = "submitted"
       /\ \E order \in UNION {Orders(S) : S \in SUBSET DOMAIN s_cands} :
             ScrapeAsCompleted(order)
    \/ ScrapeConsume
    \/ ScrapeReturn

SpecContent == InitScrape /\ [][NextContent]_vars

TypeOK ==
    /\ current_index \in 0..(instance_count - 1)
    /\ port_lock \in Threads \cup {NoThread}
    /\ DOMAIN port_stats \subseteq PortSet
    /\ DOMAIN health_cache \subseteq PortSet

\* ------------------------------------------------------- pool properties

MultiEndpoint == enabled /\ instance_count >= 2

\* number of positions of seq holding x
Occurrences(seq, x) == Cardinality({i \in 1..Len(seq) : seq[i] = x})

RECURSIVE SumRequests(_)
SumRequests(S) ==
    IF S = {} THEN 0
    ELSE LET p == CHOOSE x \in S : TRUE
         IN port_stats[p].requests + SumRequests(S \ {p})

\* C1: in a multi-endpoint pool of N endpoints every window of N consecutive
\* no-preference selections, wherever the cursor stood at its start, holds
\* each of the N configured endpoints exactly once.
C1_RoundRobin ==
    MultiEndpoint =>
        \A i \in 1..Len(returned) :
            i + instance_count - 1 <= Len(returned) =>
                {returned[j] : j \in i..(i + instance_count - 1)} = PortSet

\* a window of N selections that started from a cursor other than 0 is complete
C1_Witness ==
    /\ MultiEndpoint
    /\ Len(returned) >= 2 * instance_count - 1

\* the endpoint the k-th of a run of sequential selections returns
SequentialSelection(k) == ports[((k - 1) % instance_count) + 1]

InCriticalSection(t) == pc[t] \in {"L74", "L75", "L77", "L78"}

\* C2: with selections running concurrently, no worker holds the pool mutex
\* while its request is on the network, and whenever no selection is inside
\* the critical section the K selections completed so far returned what K
\* sequential selections return (as a multiset, per-endpoint counts at most 1
\* apart) and the requests counters count exactly those K selections.
C2_AtomicSelection ==
    MultiEndpoint =>
        /\ \A t \in Threads : pc[t] = "io" => port_lock # t
        /\ (\A t \in Threads : ~InCriticalSection(t)) =>
             LET K == Len(returned)
             IN /\ \A p \in PortSet :
                     /\ Occurrences(returned, p) =
                          Cardinality({k \in 1..K : SequentialSelection(k) = p})
                     /\ Occurrences(returned, p) =
                          (IF p \in DOMAIN port_stats
                             THEN port_stats[p].requests ELSE 0)
                /\ \A p, q \in PortSet :
                     Occurrences(returned, p) - Occurrences(returned, q) <= 1
                /\ SumRequests(DOMAIN port_stats) = K

\* two completed selections while one worker waits for the mutex another holds
C2_Witness ==
    /\ MultiEndpoint
    /\ Len(returned) >= 2
    /\ \E t \in Threads : pc[t] = "lock" /\ port_lock \notin {t, NoThread}

\* C3: get_healthy_ports never returns an empty list: it returns the ports it
\* found healthy plus the unknown ones whose probe answered 200, each once,
\* and the whole configured list when there is none.
C3_FailOpen ==
    healthy_call.called =>
        LET H == {p \in PortSet :
                    \/ healthy_call.status[p] = "healthy"
                    \/ /\ healthy_call.status[p] = "unknown"
                       /\ healthy_call.outcomes[p] = "200"}
            ret == healthy_call.ret
        IN /\ ret # << >>
           /\ {ret[i] : i \in 1..Len(ret)} = (IF H = {} THEN PortSet ELSE H)
           /\ Len(ret) = Cardinality({ret[i] : i \in 1..Len(ret)})
           /\ H = {} => ret = ports

\* a call that found every endpoint of a pool of several unhealthy
C3_Witness ==
    /\ healthy_call.called
    /\ Len(ports) >= 2
    /\ \A p \in PortSet : healthy_call.status[p] = "unhealthy"
    /\ healthy_call.ret = ports

\* C10: a record_failure on an endpoint with at least 2 requests leaves the
\* endpoint unhealthy when failures/requests is then above 1/2 and leaves its
\* health status as it was when failures/requests is then exactly 1/2.
C10_FailureThreshold ==
    [][\A p \in DOMAIN port_stats :
         (/\ p \in DOMAIN port_stats'
          /\ port_stats'[p].failures = port_stats[p].failures + 1
          /\ port_stats'[p].requests >= 2)
         => /\ 2 * port_stats'[p].failures > port_stats'[p].requests
                 => port_stats'[p].health_status = "unhealthy"
            /\ 2 * port_stats'[p].failures = port_stats'[p].requests
                 => port_stats'[p].health_status = port_stats[p].health_status]_vars

\* one endpoint at exactly 1/2 still healthy, another above 1/2 and unhealthy
C10_Witness ==
    \E p, q \in DOMAIN port_stats :
        /\ port_stats[p].requests >= 2
        /\ port_stats[p].failures >= 1
        /\ 2 * port_stats[p].failures = port_stats[p].requests
        /\ port_stats[p].health_status = "healthy"
        /\ port_stats[q].requests >= 2
        /\ 2 * port_stats[q].failures > port_stats[q].requests
        /\ port_stats[q].health_status = "unhealthy"

\* --------------------------------------------------- dispatch properties

\* the tasks whose future.result() returned a list
Returning == {k \in TaskIds : t_out[k].kind \in {"ok", "fail"}}

\* the entries of the returning tasks in the order as_completed yielded them
RECURSIVE FanInEntries(_)
FanInEntries(order) ==
    IF order = << >> THEN << >>
    ELSE (IF Head(order) \in Returning THEN t_out[Head(order)].entries ELSE << >>)
         \o FanInEntries(Tail(order))

LinksOf(list) == {list[i].link : i \in 1..Len(list)}

\* the first entry of list carrying link
FirstWith(list, link) ==
    list[CHOOSE i \in 1..Len(list) :
            /\ list[i].link = link
            /\ \A j \in 1..(i - 1) : list[j].link # link]

C5_EndToEnd ==
    (d_phase = "done" /\ max_workers = 3) =>
        /\ d_ret.kind = "returned"
        /\ Len(d_ret.value) = 2
        /\ LinksOf(d_ret.value) = {"X", "Y"}
        /\ \A i \in 1..Len(d_ret.value) :
             d_ret.value[i].link = "X" =>
                d_ret.value[i].title =
                    <<(IF Position(completion, "A") < Position(completion, "B")
                         THEN "A" ELSE "B"), 1>>

\* C6: whatever tasks fail or raise and whatever verify_tor_connection says,
\* get_search_results returns, every submitted task has run, and the result
\* holds exactly the links of the tasks that returned a list.
C6_Isolation ==
    d_phase = "done" =>
        /\ d_ret.kind = "returned"
        /\ \A k \in EnabledIds : t_state[k] = "finished"
        /\ LinksOf(d_ret.value) =
             UNION {LinksOf(t_out[k].entries) : k \in Returning} \ {""}
        /\ \A i, j \in 1..Len(d_ret.value) :
             d_ret.value[i].link = d_ret.value[j].link => i = j

\* ----------------------------------------------------- scrape properties

DegradedOutcomes == FetchOutcomes \ {"ok200"}

\* C7: scrape_single never raises on a network failure: for a timeout, a
\* connection error, a proxy error, an HTTP error status, a non-200 status,
\* another request exception and an unexpected exception while fetching or
\* parsing, it returns the pair (link, title), the candidate's title being
\* the content.
C7_Degradation ==
    (single_call.called /\ single_call.outcome \in DegradedOutcomes)
        => /\ single_call.kind = "returned"
           /\ single_call.url = single_call.cand.link
           /\ single_call.text = single_call.cand.title

\* a forced timeout on an onion link, through the pool and the rotation
\* handler, came back as (link, title)
C7_Witness ==
    /\ single_call.called
    /\ single_call.outcome = "timeout"
    /\ single_call.rotate
    /\ single_call.cand.link \in OnionLinks
    /\ single_call.kind = "returned"
    /\ single_call.text = single_call.cand.title
    /\ \E p \in DOMAIN port_stats : port_stats[p].failures > 0

ScrapeReturned == s_phase = "done" /\ s_ret.kind = "returned"

CandidateLinks == {s_cands[i].link : i \in DOMAIN s_cands}

\* C8: scrape_multiple loses no work item: for candidates with pairwise
\* distinct links and every combination of worker outcomes (success,
\* degraded failure, exception raised out of scrape_single), the keys of the
\* returned map are exactly the candidate links, one entry per candidate, and
\* a candidate whose worker raised has its title as value.
C8_NoLostItem ==
    ScrapeReturned
        => /\ DOMAIN s_ret.value = CandidateLinks
           /\ Cardinality(DOMAIN s_ret.value) = Len(s_cands)
           /\ \A i \in DOMAIN s_cands :
                 s_res[i].kind = "raised"
                    => s_ret.value[s_cands[i].link] = s_cands[i].title

\* a full list came back with one worker that raised and one that scraped a
\* page
C8_Witness ==
    /\ ScrapeReturned
    /\ Len(s_cands) = MaxCandidates
    /\ \E i, j \in DOMAIN s_cands :
          /\ s_res[i].kind = "raised"
          /\ s_res[j].kind = "returned"
          /\ s_res[j].text # s_cands[j].title
          /\ s_ret.value[s_cands[i].link] = s_cands[i].title

\* the text the fan-in loop receives for candidate i: what the worker
\* returned, or the title when the worker raised
RawText(i) == IF s_res[i].kind = "raised" THEN s_cands[i].title ELSE s_res[i].text

\* C9: every value of the map scrape_multiple returns has at most
\* max_chars + 3 characters: a longer text is stored as its first max_chars
\* characters followed by "...", a text of at most max_chars characters is
\* stored unchanged, on every path that writes the map, the title fallback
\* for a worker that raised included.
C9_Truncation ==
    ScrapeReturned
        => \A i \in DOMAIN s_cands :
              LET value == s_ret.value[s_cands[i].link]
              IN /\ Len(value) <= s_max_chars + 3
                 /\ value = Truncate(RawText(i), s_max_chars)

\* ---------------------------------------------------- rotation properties

Quiescent == \A t \in Threads : w_pc[t] = "idle"

\* C11: with rotate = true, interval N, a connected controller and no fetch
\* failure, once K invocations of scrape_single on onion links have run,
\* one after the other or concurrently, exactly floor(K / N) rotate_circuit
\* calls were made.
C11_Cadence ==
    (Quiescent /\ w_rotate /\ ~w_failed)
        => tor_controller.calls = scrape_calls \div RotationInterval(w_interval)

\* every invocation has run, at interval 2, and more than one rotation was
\* called for
C11_Witness ==
    /\ Quiescent
    /\ w_rotate
    /\ ~w_failed
    /\ scrape_calls = MaxRotateCalls
    /\ RotationInterval(w_interval) = 2
    /\ tor_controller.calls = scrape_calls \div 2
    /\ tor_controller.calls >= 2

\* C12: at most one rotate_circuit execution, from the NEWNYM signal through
\* the settle delay, is in progress at any time: two workers that both
\* decide to rotate never overlap their rotate_circuit calls.
C12_Serialized == Cardinality({t \in Threads : Rotating(t)}) <= 1

OnionCandidates == {i \in DOMAIN s_cands : s_cands[i].link \in OnionLinks}

\* C13: scrape_multiple accepts rotate and rotate_interval and applies the
\* rotation policy in its workers: with rotate = true, a connected controller
\* and at least rotate_interval onion candidates some rotate_circuit call is
\* made; with rotate = false none is.
C13_RotateHonoured ==
    (s_phase = "done" /\ s_kwargs.given)
        => /\ s_ret.kind = "returned"
           /\ (/\ s_kwargs.rotate
               /\ tor_controller.state = "connected"
               /\ Cardinality(OnionCandidates)
                     >= RotationInterval(s_kwargs.rotate_interval))
                 => tor_controller.calls >= 1
           /\ ~s_kwargs.rotate => tor_controller.calls = 0

\* a recorded scrape_single call on an onion link whose request ended in a
\* network failure
FailedOnionCall ==
    /\ single_call.called
    /\ single_call.outcome \in NetworkFailures
    /\ single_call.cand.link \in OnionLinks

\* C14: with rotate = true, rotate-on-error enabled and a connected
\* controller, a scrape_single of an onion link that ends in a timeout, a
\* connection error, a proxy error or an HTTP error makes exactly one
\* rotate_circuit call in its handler, whatever the request counter, and
\* leaves the counter alone; with rotate = false or rotate-on-error disabled
\* no failure makes one.
C14_RotateOnError ==
    FailedOnionCall
        => /\ (single_call.rotate /\ rotate_on_error /\ single_call.connected)
                 => /\ single_call.error_calls = 1
                    /\ single_call.counter_at_return = single_call.counter_at_fetch
           /\ (~single_call.rotate \/ ~rotate_on_error)
                 => single_call.error_calls = 0

\* C15: in every pool mode, single-endpoint mode included, the completion of
\* a request served by endpoint p increments exactly one of successes(p) and
\* failures(p) in the pool statistics, and a success leaves p healthy.
C15_OutcomeFeedback ==
    [][\A k \in Engines :
          (/\ t_state[k] = "running"
           /\ t_state'[k] = "finished"
           /\ t_out'[k].kind \in {"ok", "fail"})
            => LET p == t_port[k]
               IN /\ Successes(port_stats', p) + Failures(port_stats', p)
                       = Successes(port_stats, p) + Failures(port_stats, p) + 1
                  /\ t_out'[k].kind = "ok"
                       => /\ p \in DOMAIN port_stats'
                          /\ port_stats'[p].health_status = "healthy"]_vars

\* C16: a scrape_single of an onion link that ends in a timeout, a
\* connection error, a proxy error, an HTTP error or a non-200 status calls
\* record_failure once on the port it used, whatever rotate and
\* rotate-on-error are; a 200 calls record_success once and never
\* record_failure.
C16_RecordsOutcome ==
    (/\ single_call.called
     /\ single_call.cand.link \in OnionLinks
     /\ single_call.outcome \in FetchOutcomes)
        => /\ single_call.outcome \in NetworkFailures \cup {"non200"}
                 => single_call.recorded = "failure"
           /\ single_call.outcome = "ok200"
                 => single_call.recorded = "success"

ProbedCached == probe_call.n > 0 /\ EngineConfig(probe_call.engine).enabled /\ probe_call.cached

\* seconds between the probe that wrote the entry and the last direct probe
ProbeAge == probe_call.at - probe_call.prior_stamp

\* C18: a probe of an enabled engine made less than 300 s after the probe
\* that wrote the engine's cache entry sends no test query (the two probes
\* sent exactly one), returns the cached verdict, healthy or unhealthy, and
\* leaves the entry as it was; a probe made 300 s or more after it sends the
\* test query again and replaces the entry with one of its own time.
C18_HealthCacheTTL ==
    ProbedCached =>
        IF ProbeAge < HEALTH_CACHE_TTL
          THEN /\ probe_call.checks_added = 0
               /\ probe_call.ret = (IF probe_call.prior_verdict THEN "true" ELSE "false")
               /\ probe_call.cached_after
               /\ probe_call.verdict_after = probe_call.prior_verdict
               /\ probe_call.stamp_after = probe_call.prior_stamp
          ELSE /\ probe_call.checks_added = 1
               /\ probe_call.cached_after
               /\ probe_call.stamp_after = probe_call.at

\* a probe answered from an unhealthy entry written earlier in the window
C18_Witness ==
    /\ ProbedCached
    /\ 0 < ProbeAge /\ ProbeAge < HEALTH_CACHE_TTL
    /\ ~probe_call.prior_verdict
    /\ probe_call.checks_added = 0
    /\ net_checks[probe_call.engine] = 1


CatalogPosition(e) == CHOOSE i \in 1..Len(Catalog) : Catalog[i].id = e

\* a comes before b in ascending priority, catalog order kept among equals
PriorityBefore(a, b) ==
    \/ EngineConfig(a).priority < EngineConfig(b).priority
    \/ /\ EngineConfig(a).priority = EngineConfig(b).priority
       /\ CatalogPosition(a) < CatalogPosition(b)

\* the list holds every enabled engine exactly once and no other, in
\* priority order, or healthy before unhealthy and in priority order within
\* each part
OrderedList(l, skip, healthy) ==
    /\ Len(l) = Cardinality(EnabledIds)
    /\ {l[i] : i \in 1..Len(l)} = EnabledIds
    /\ \A i, j \in 1..Len(l) :
          i < j =>
            IF skip THEN PriorityBefore(l[i], l[j])
            ELSE \/ l[i] \in healthy /\ l[j] \notin healthy
                 \/ /\ (l[i] \in healthy) = (l[j] \in healthy)
                    /\ PriorityBefore(l[i], l[j])

\* C19: get_enabled_search_engines returns a list holding every enabled
\* engine exactly once and no disabled engine; with skip_health_check the
\* list is in ascending priority with catalog order among equal priorities,
\* without it the probe-healthy engines come first and the probe-unhealthy
\* ones after, each part in that same order.
C19_EnabledOrdered ==
    ordered_call.n > 0 =>
        /\ ordered_call.kind = "returned"
        /\ OrderedList(ordered_call.list, ordered_call.skip, ordered_call.healthy)


\* the last direct probe was of an enabled engine and sent its test query
ProbedUncached ==
    /\ probe_call.n > 0
    /\ EngineConfig(probe_call.engine).enabled
    /\ probe_call.checks_added = 1

\* C20: a probe of an enabled engine that sends its test query returns,
\* never raises; it returns true exactly when the query came back with
\* status 200, 403 or 404, false for any other status and for an exception;
\* and the verdict it returns is the verdict of the cache entry it leaves.
C20_ProbeClassification ==
    ProbedUncached =>
        /\ probe_call.ret \in {"true", "false"}
        /\ (probe_call.ret = "true") =
              (probe_call.query.kind = "status" /\ probe_call.query.code \in {200, 403, 404})
        /\ probe_call.cached_after
        /\ probe_call.verdict_after = (probe_call.ret = "true")


\* ---------------------------------------------- endpoint health properties

\* the last health check found an entry for p written less than 60 s before
AnsweredFromCache(p) ==
    /\ p \in health_call.cached
    /\ health_call.at - health_call.prior_stamp[p] < HEALTH_CACHE_TIMEOUT

\* C21: health_check_all returns a verdict for every configured endpoint; a
\* health check of p made less than 60 s after the probe that wrote p's cache
\* entry, whatever its verdict, returns that verdict, sends no request and
\* leaves the entry; a check with no entry or one 60 s old or older sends
\* the request and leaves an entry of its own time holding the verdict it
\* returns.
C21_PortCacheTTL ==
    health_call.n > 0 =>
        /\ health_call.kind = "all" => DOMAIN health_call.results = PortSet
        /\ \A p \in DOMAIN health_call.results :
              IF AnsweredFromCache(p)
                THEN /\ p \notin health_call.sent
                     /\ health_call.results[p] = health_call.prior[p]
                     /\ health_call.after[p] = health_call.prior[p]
                     /\ health_call.stamp_after[p] = health_call.prior_stamp[p]
                ELSE /\ p \in health_call.sent
                     /\ health_call.after[p] = health_call.results[p]
                     /\ health_call.stamp_after[p] = health_call.at

\* a health_check_all on a pool of several endpoints answered one endpoint
\* from a failed probe's entry half a window old and probed another again
\* whose entry was a whole window old
C21_Witness ==
    /\ health_call.kind = "all"
    /\ Len(ports) >= 2
    /\ \E p, q \in PortSet :
          /\ AnsweredFromCache(p)
          /\ health_call.at - health_call.prior_stamp[p] > 0
          /\ ~health_call.prior[p]
          /\ q \in health_call.cached
          /\ health_call.at - health_call.prior_stamp[q] = HEALTH_CACHE_TIMEOUT
          /\ q \in health_call.sent


\* C22: get_proxy_for_request returns the proxy of one port of self.ports in
\* every pool state, the state with every endpoint unhealthy included: the
\* preferred port when it is one of self.ports, the cursor and the
\* statistics left as they were, and otherwise the port under the cursor.
C22_SelectsMember ==
    select_call.n > 0 =>
        /\ select_call.port \in PortSet
        /\ IF select_call.prefer \in PortSet
             THEN /\ select_call.port = select_call.prefer
                  /\ select_call.index_after = select_call.index_before
                  /\ select_call.stats_after = select_call.stats_before
             ELSE select_call.port = ports[select_call.index_before + 1]

\* a selection naming a port the pool does not have, on a pool of several
\* endpoints all unhealthy and with the cursor off its start
C22_Witness ==
    /\ select_call.n > 0
    /\ MultiEndpoint
    /\ select_call.prefer # NoPort
    /\ select_call.prefer \notin PortSet
    /\ select_call.index_before > 0
    /\ \A p \in PortSet :
          /\ p \in DOMAIN select_call.stats_before
          /\ select_call.stats_before[p].health_status = "unhealthy"


\* the statistics of a port as get_statistics shows them
StatsOf(stats, port) == IF port \in DOMAIN stats THEN stats[port] ELSE DefaultStats

\* C23: record_success(p) for a port p of the pool adds exactly one to
\* successes(p) and leaves health_status(p) healthy whatever it was, and it
\* leaves requests(p), failures(p), the cursor and the statistics of every
\* other port as they were.
C23_RecordSuccessFrame ==
    record_call.n > 0 =>
        LET p == record_call.port
            before == StatsOf(record_call.stats_before, p)
            after == StatsOf(record_call.stats_after, p)
        IN /\ after.successes = before.successes + 1
           /\ after.health_status = "healthy"
           /\ after.requests = before.requests
           /\ after.failures = before.failures
           /\ record_call.index_after = record_call.index_before
           /\ \A q \in PortSet \ {p} :
                 StatsOf(record_call.stats_after, q) = StatsOf(record_call.stats_before, q)


\* ------------------------------------------------- TorController properties

\* no call on the object is in progress
CtlIdle == \A t \in Threads : c_pc[t] = "idle"

\* C24: once a close() call has returned, is_connected() is false after
\* every later call, whatever connect(), rotate_circuit() and close() calls
\* follow.
C24_ClosedTerminal == (c_closed /\ CtlIdle) => ~IsConnected(c_controller)

\* C25: connect() never raises; it returns True exactly when the control
\* channel was opened and the authentication succeeded, is_connected() is
\* then true, and after a connect() that returned False is_connected() is
\* false.
C25_ConnectNonFatal ==
    c_last.op = "connect" =>
        /\ ~c_last.raised
        /\ (c_last.ret = "true") = (c_last.port_ok /\ c_last.auth_ok)
        /\ c_last.connected_after = (c_last.ret = "true")

\* a connect() on a connected controller whose authentication failed
C25_Witness ==
    /\ c_last.op = "connect"
    /\ IsConnected(c_last.before.controller)
    /\ c_last.port_ok /\ ~c_last.auth_ok
    /\ c_last.ret = "false"
    /\ ~IsConnected(c_controller)

\* C26: whenever no rotate_circuit call is between its signal and its
\* return, _rotation_count is the number of rotate_circuit calls that
\* returned True, with callers one after the other or at the same time; a
\* call that returned False sent no signal, stored no increment and raised
\* nothing.
C26_RotationCount ==
    /\ (\A t \in Threads : c_pc[t] \notin {"L79", "L79s", "L89"})
          => c_rotation_count = c_true_returns
    /\ (c_last.op = "rotate" /\ c_last.ret = "false")
          => /\ c_last.sent = 0
             /\ c_last.stored = 0
             /\ ~c_last.raised

\* C27: close() never raises, even when releasing the channel fails, and
\* leaves is_connected() false and _rotation_count as it was; a close() on
\* a controller that holds no channel, as after a first close() or on one
\* never connected, releases nothing and changes nothing, so that two
\* close() calls in a row release the channel once and leave what one
\* leaves.
C27_CloseIdempotent ==
    c_last.op = "close" =>
        /\ ~c_last.raised
        /\ ~c_last.connected_after
        /\ c_last.rotation_count_after = c_last.before.rotation_count
        /\ c_last.last_rotation_after = c_last.before.last_rotation
        /\ c_last.released <= 1
        /\ ~IsConnected(c_last.before.controller) => c_last.released = 0
        /\ c_last.prev_op = "close" => ~IsConnected(c_last.before.controller)

\* a second close() in a row on a controller that had rotated
C27_Witness ==
    /\ c_last.op = "close"
    /\ c_last.prev_op = "close"
    /\ c_released = 1
    /\ c_rotation_count > 0
    /\ CtlIdle

\* ------------------------------------------------ clear-web bypass properties

\* the host of a link is an onion address: the piece before the first "/"
\* after the scheme is ".onion"
HostEnd(text) ==
    IF \E i \in 2..Len(text) : text[i] = "/"
      THEN (CHOOSE i \in 2..Len(text) :
                /\ text[i] = "/"
                /\ \A j \in 2..(i - 1) : text[j] # "/") - 1
      ELSE Len(text)
OverlayAddress(link) ==
    LET text == LinkText(link)
    IN Len(text) >= 2 /\ text[HostEnd(text)] = ".onion"

\* what a scrape_single call must leave alone when it bypasses the pool
BypassFrame ==
    /\ single_call'.port = NoPort
    /\ UNCHANGED <<current_index, port_stats, health_cache, request_counter,
                   tor_controller>>

\* C28: a scrape_single call on a link that is not an onion address uses no
\* proxy port and leaves the pool (cursor, per-port statistics, health
\* cache), the request counter and the controller unchanged, whatever the
\* fetch outcome and whether or not rotate is set; a port is used only for
\* onion addresses.
C28_ClearWebBypass ==
    [][scrape_calls' = scrape_calls + 1
          => /\ ~OverlayAddress(single_call'.cand.link) => BypassFrame
             /\ single_call'.port # NoPort
                   => OverlayAddress(single_call'.cand.link)]_vars

\* the same for the links that ".onion" in url does not recognise
C28_UnrecognisedBypass ==
    [][scrape_calls' = scrape_calls + 1
          => /\ ~UseTor(single_call'.cand.link) => BypassFrame
             /\ single_call'.port # NoPort => UseTor(single_call'.cand.link)]_vars

\* a clear-web call with rotate set whose fetch timed out, made after onion
\* calls moved the counter
C28_Witness ==
    /\ single_call.called
    /\ single_call.cand.link \in ClearLinks
    /\ single_call.rotate
    /\ single_call.outcome = "timeout"
    /\ single_call.port = NoPort
    /\ rotate_on_error
    /\ request_counter > 0

\* ---------------------------------------------- pre-filled content properties

\* the candidates of the running scrape_multiple call that carry content
Prefilled == {i \in DOMAIN s_cands : s_cands[i].content # << >>}

\* C29: scrape_multiple issues no HTTP request for a candidate that carries
\* non-empty content, and the entry it returns for the candidate's link is
\* the supplied content (cut to max_chars as every entry is).
C29_ContentSkipsFetch ==
    \A i \in Prefilled :
        /\ s_res[i].kind # "running"
        /\ (s_phase = "done" /\ s_ret.kind = "returned")
              => /\ s_cands[i].link \in DOMAIN s_ret.value
                 /\ s_ret.value[s_cands[i].link]
                       = Truncate(s_cands[i].content, s_max_chars)

\* ---------------------------------------------------- indicator merge laws

\* set union per type of two indicator dictionaries
UnionPerType(a, b) ==
    [t \in DOMAIN a \cup DOMAIN b |->
        (IF t \in DOMAIN a THEN a[t] ELSE {})
            \cup (IF t \in DOMAIN b THEN b[t] ELSE {})]

\* C30: merge_iocs is the set union per type of its arguments, and so is
\* commutative (merge(a,b) = merge(b,a)), associative (merge(merge(a,b),c) =
\* merge(a,merge(b,c)), which is also merge(a,b,c)) and idempotent
\* (merge(merge(a,b),a) = merge(a,b) and merge(a,a) = a).
C30_MergeLaws ==
    m_out.done =>
        LET a == m_dicts[1]
            b == m_dicts[2]
            c == m_dicts[3]
        IN /\ m_out.ab = UnionPerType(a, b)
           /\ m_out.abc = UnionPerType(UnionPerType(a, b), c)
           /\ m_out.ab = m_out.ba
           /\ m_out.ab_c = m_out.a_bc
           /\ m_out.ab_c = m_out.abc
           /\ m_out.ab_a = m_out.ab
           /\ m_out.aa = a

\* dictionaries that share a type with different values, one of them with a
\* type the other lacks, merged with a third that is not empty
C30_Witness ==
    /\ m_out.done
    /\ DOMAIN m_dicts[1] # DOMAIN m_dicts[2]
    /\ \E t \in DOMAIN m_dicts[1] \cap DOMAIN m_dicts[2] :
          /\ m_dicts[1][t] # {}
          /\ m_dicts[2][t] # {}
          /\ m_dicts[1][t] \cap m_dicts[2][t] = {}
    /\ DOMAIN m_dicts[3] # {}
    /\ m_out.abc # m_out.ab

\* ------------------------------------------------------ extraction properties

\* the names a call asked for
Requested(ioc_types) ==
    IF ioc_types = AllTypes THEN PatternKeys ELSE SetOf(ioc_types)

\* a dictionary cut down to the keys in T
Restrict(iocs, T) == [t \in DOMAIN iocs \cap T |-> iocs[t]]

\* C31: extract_iocs returns the same dictionary for the same text whatever
\* calls came before and in whatever order the types are listed; the result
\* for a type list is the result for all types cut down to that list; every
\* key present is a known type holding the non-empty set of its pattern's
\* matches, and types without a match and unknown names are absent.
C31_ExtractDeterministic ==
    \A i \in DOMAIN x_calls :
        LET call == x_calls[i]
            all == extract_iocs(x_text, AllTypes)
        IN /\ \A j \in DOMAIN x_calls :
                 Requested(x_calls[j].types) = Requested(call.types)
                     => x_calls[j].iocs = call.iocs
           /\ call.iocs = Restrict(all, Requested(call.types))
           /\ \A t \in DOMAIN call.iocs :
                 /\ t \in PatternKeys
                 /\ call.iocs[t] # {}
                 /\ call.iocs[t] = SetOf(Findall(t, x_text))
           /\ \A t \in Requested(call.types) \ DOMAIN call.iocs :
                 t \notin PatternKeys \/ Findall(t, x_text) = << >>

\* the same types asked in two orders, an unknown name among them, on a text
\* that repeats an address and has no ipv4 match
C31_Witness ==
    /\ Len(x_calls) = 2
    /\ x_calls[1].types = <<"nosuch", "email">>
    /\ x_calls[2].types = <<"email", "nosuch">>
    /\ x_text = <<"admin@example.com", "admin@example.com">>
    /\ x_calls[2].iocs = [t \in {"email"} |-> {"admin@example.com"}]

\* C32: on the scenario text extract_iocs over all types returns exactly
\* email, ipv4, md5 and bitcoin, each with its one value, and no other
\* category.
C32_ExtractionScenario ==
    \A i \in DOMAIN x_calls :
        (x_text = ScenarioText /\ x_calls[i].types = AllTypes)
            => /\ DOMAIN x_calls[i].iocs = {"email", "ipv4", "md5", "bitcoin"}
               /\ x_calls[i].iocs["email"] = {"admin@example.com"}
               /\ x_calls[i].iocs["ipv4"] = {"1.2.3.4"}
               /\ x_calls[i].iocs["md5"] = {Md5Word}
               /\ x_calls[i].iocs["bitcoin"] = {BtcWord}

\* ------------------------------------------------ settling circuit properties

\* a step in which some thread's proxied request is made
RequestStep == \E t \in Threads : w_pc[t] = "L137" /\ w_pc'[t] # "L137"

\* C33: from the NEWNYM signal of a rotate_circuit call until that call
\* returns after the settle delay, no proxied request is made: not by the
\* thread that rotates, and not by any other thread.
C33_NoRequestWhileSettling ==
    [][RequestStep => \A u \in Threads : ~Rotating(u)]_vars

\* the thread that rotates makes its own request only after rotate_circuit
\* has returned
C33_OwnRequestAfterSettle ==
    [][\A t \in Threads :
          (w_pc[t] = "L137" /\ w_pc'[t] # "L137") => ~Rotating(t)]_vars

\* ------------------------------------------------------------ retry properties

\* the outcomes of the invocations made so far
Invoked == SubSeq(r_run.plan, 1, r_run.invocations)

\* the wrapper of a function: at most max_retries invocations, an
\* invocation left whenever the loop is still running, the first result
\* returned at once, an exception outside the tuple raised at once, the
\* last listed exception raised after max_retries failures
C34_WrapperContract ==
    r_run.kind = "function" =>
        /\ r_run.invocations <= r_run.max_retries
        /\ r_run.state = "loop" =>
              /\ r_run.invocations = r_run.attempt
              /\ r_run.attempt < r_run.max_retries \/ r_run.max_retries = 0
              /\ \A i \in 1..r_run.invocations : Invoked[i] = "raises_listed"
        /\ r_run.result = "value" =>
              /\ r_run.last_outcome = "returns"
              /\ \A i \in 1..(r_run.invocations - 1) : Invoked[i] = "raises_listed"
        /\ r_run.result = "other" =>
              /\ r_run.last_outcome = "raises_other"
              /\ \A i \in 1..(r_run.invocations - 1) : Invoked[i] = "raises_listed"
        /\ r_run.result = "listed" =>
              /\ r_run.invocations = r_run.max_retries
              /\ \A i \in 1..r_run.invocations : Invoked[i] = "raises_listed"
        /\ r_run.result = "None" => r_run.max_retries = 0

\* C34: a function wrapped by retry_with_backoff(max_retries = n) is invoked
\* at most n times and the wrapper ends: with the first result, with an
\* exception outside the tuple after the invocation that raised it, or with
\* the last listed exception after n failures; and a scrape_single fetch
\* that fails with connection errors is attempted at most 2 times before
\* the title is returned.
C34_BoundedRetry ==
    /\ C34_WrapperContract
    /\ r_run.kind = "scrape_single" =>
          /\ r_run.invocations <= SCRAPE_MAX_RETRIES
          /\ r_run.connects <= 2
          /\ r_run.result = "title" =>
                \A i \in 1..r_run.connects : r_run.plan[i] = "connection_error"

\* a function that fails twice with a listed exception and then returns
C34_Witness ==
    /\ r_run.kind = "function"
    /\ r_run.max_retries = 3
    /\ r_run.invocations = 3
    /\ r_run.result = "value"

\* ----------------------------------------------- pool statistics properties

\* C35: in every reachable pool state each endpoint has
\* successes + failures <= requests, so that the failure rate
\* failures / requests of record_failure never exceeds 1.
C35_StatsConsistent ==
    \A p \in DOMAIN port_stats :
        port_stats[p].successes + port_stats[p].failures <= port_stats[p].requests

\* ----------------------------------------------- concurrent record properties

\* the calls in k_kinds applied one after the other in the given order
RECURSIVE AppliedInOrder(_, _, _)
AppliedInOrder(stats, order, i) ==
    IF i > Len(order) THEN stats
    ELSE AppliedInOrder(IF k_kinds[order[i]] = "success"
                          THEN RecordSuccess(stats, StatPort)
                          ELSE RecordFailure(stats, StatPort),
                        order, i + 1)

StatQuiescent == \A t \in Threads : k_pc[t] = "idle"

\* C36: when the K record_success / record_failure calls made for one
\* endpoint have all returned, successes + failures of the endpoint has
\* grown by exactly K, and the entry, its health_status included, is what
\* the K calls leave when run one after the other in some order.
C36_NoLostUpdate ==
    StatQuiescent =>
        /\ port_stats[StatPort].successes + port_stats[StatPort].failures
              = StatsBase.stats[StatPort].successes
                  + StatsBase.stats[StatPort].failures + Len(k_kinds)
        /\ \E order \in Orders(DOMAIN k_kinds) :
              port_stats = AppliedInOrder(StatsBase.stats, order, 1)

\* ------------------------------------------------- global pool properties

\* C37: between two resets every caller of get_tor_pool, concurrent first
\* callers included, obtains the same TorPool object.
C37_PoolSingleton == Cardinality(g_returned) <= 1

\* ------------------------------------------- authenticated channel properties

\* a call of is_connected() by thread t returns True: the test at line 72
\* of rotate_circuit lets the call go on
ConnectedSeen(t) == c_pc[t] = "idle" /\ c_pc'[t] = "L77"

\* thread t sends the NEWNYM signal of line 77 on the channel in the field
SignalSent(t) == c_pc[t] = "L77" /\ c_pc'[t] # "L77" /\ IsConnected(c_controller)

\* C38: is_connected() returns True only when the channel in the
\* controller field has completed authentication, also while another
\* thread is inside connect().
C38_ConnectedIsAuthenticated == [][(\E t \in Threads : ConnectedSeen(t)) => c_auth]_vars

\* C38: rotate_circuit sends the NEWNYM signal only on an authenticated
\* channel.
C38_SignalOnAuthenticated == [][(\E t \in Threads : SignalSent(t)) => c_auth]_vars

\* ------------------------------------------ selection and health properties

\* statistics that differ from one another in the health statuses only,
\* and the statistics of a pool nothing was recorded in
HealthVariants ==
    {<< >>} \cup [PortSet -> {[DefaultStats EXCEPT !.health_status = h] :
                                h \in {"unknown", "healthy", "unhealthy"}}]

\* C39: the endpoint a selection without a preferred port returns depends
\* on the cursor only: with the same cursor, any other health statuses or
\* statistics give the same endpoint, in the current state and for every
\* selection made.
C39_SelectionIgnoresHealth ==
    /\ \A alt \in HealthVariants :
          GetAvailablePort(current_index, alt).port
              = GetAvailablePort(current_index, port_stats).port
    /\ (select_call.n > 0 /\ select_call.prefer = NoPort) =>
          \A alt \in HealthVariants :
              GetAvailablePort(select_call.index_before, alt).port = select_call.port

\* a selection without a preferred port that returned an unhealthy endpoint
\* of a pool that had an endpoint not unhealthy
C39_Witness ==
    /\ select_call.n > 0
    /\ select_call.prefer = NoPort
    /\ MultiEndpoint
    /\ select_call.port \in DOMAIN select_call.stats_before
    /\ select_call.stats_before[select_call.port].health_status = "unhealthy"
    /\ \E q \in PortSet \ {select_call.port} :
          \/ q \notin DOMAIN select_call.stats_before
          \/ select_call.stats_before[q].health_status # "unhealthy"

====
